---------------------------- MODULE Spec2Model ----------------------------
(***************************************************************************)
(* BVH utilities of source/blender/blenkernel/intern/bvhutils.cc:           *)
(* tree builders, active-element masks, the per-mesh BVH cache and the      *)
(* ownership of the trees handed out in query bundles.                      *)
(*                                                                          *)
(* Element indices are 0-based as in the source.  An array of n elements    *)
(* is a function with domain 0..n-1; the empty array/span/mask is << >>.    *)
(***************************************************************************)
EXTENDS Integers, Sequences, FiniteSets, TLC

VARIABLES
    mesh,      \* the Mesh the cache belongs to (geometry, visibility flags)
    cache,     \* Mesh::runtime->bvh_cache_*: slot -> [valid, owner, tree]
    heap,      \* allocated BVHTree objects: handle -> tree
    callers,   \* the threads calling into the module: caller -> frame
    alive,     \* the mesh's runtime data has not been destroyed
    epoch,     \* number of cache invalidations so far
    builds,    \* slot -> number of times its build function has run
    kbuilds,   \* kind -> number of times the kind's build function has run
    seen,      \* kind -> tree handles returned for it since the last invalidation
    before,    \* snapshot of the counters taken by the last invalidation
    calls_left, \* number of calls the callers may still start
    bin,       \* builder harness: the input of one builder call
    bout       \* builder harness: the stage and result of that call

vars == <<mesh, cache, heap, callers, alive, epoch, builds, kbuilds, seen,
          before, calls_left, bin, bout>>

-----------------------------------------------------------------------------
(* Bounds of the model *)

MaxElems == 3
MaxFaces == 2
MaxVerts == 3
NumCallers == 2
MaxCalls == 3
MaxEpoch == 1
MaxHidden == 1
MaxOwnCalls == 2
MaxPoints == 2
MaxSubsetVerts == 4
MaxDist == 2
MaxVisits == 2

-----------------------------------------------------------------------------
(* Arrays *)

Size(a) == Cardinality(DOMAIN a)

IndexRange(n) == 0 .. (n - 1)

Array(n, S) == [IndexRange(n) -> S]

\* BitSpan::is_empty / Span::is_empty
IsEmpty(a) == DOMAIN a = {}

EmptySpan == << >>

CountTrue(mask) == Cardinality({i \in DOMAIN mask : mask[i]})

RECURSIVE SumTo(_, _)
SumTo(f, n) == IF n = 0 THEN 0 ELSE f[n - 1] + SumTo(f, n - 1)

-----------------------------------------------------------------------------
(* The opaque BVHTree service: a tree is the set of leaves inserted into   *)
(* it, each <<element index, number of bounding points>>, its allocated    *)
(* capacity and whether it has been balanced.  null marks the null handle. *)

NullTree == [null |-> TRUE, cap |-> 0, leaves |-> {}, balanced |-> FALSE]

BLI_bvhtree_new(maxsize) ==
    [null |-> FALSE, cap |-> maxsize, leaves |-> {}, balanced |-> FALSE]

\* The BLI_bvhtree_insert(tree, index, co, numpoints) calls of a builder's
\* loop, one per <<index, numpoints>> of newleaves
BLI_bvhtree_insert_all(tree, newleaves) ==
    [tree EXCEPT !.leaves = @ \cup newleaves]

BLI_bvhtree_balance(tree) == [tree EXCEPT !.balanced = TRUE]

BLI_bvhtree_get_len(tree) == Cardinality(tree.leaves)

LeafIndices(tree) == {l[1] : l \in tree.leaves}

\* The leaves a nearest-point or ray-cast traversal visits: none on a null
\* tree ("no elements, zero matches for every query").
TraversalLeaves(tree) == IF tree.null THEN {} ELSE LeafIndices(tree)

NoMatch == -1

\* The index a query reports when every visited leaf may win: NoMatch when
\* no leaf is visited.
QueryResults(tree) ==
    IF TraversalLeaves(tree) = {} THEN {NoMatch} ELSE TraversalLeaves(tree)

-----------------------------------------------------------------------------
(* Builders *)

bvhtree_balance(tree) == IF ~tree.null THEN BLI_bvhtree_balance(tree) ELSE tree

bvhtree_new_common_nozero(elems_num, elems_num_active) ==
    LET act == IF elems_num_active # -1 THEN elems_num_active ELSE elems_num
    IN  [active |-> act, tree |-> BLI_bvhtree_new(act)]

\* Returns the resolved active count (the int& parameter) and the tree.
bvhtree_new_common(elems_num, elems_num_active) ==
    LET act == IF elems_num_active # -1 THEN elems_num_active ELSE elems_num
    IN  [active |-> act,
         tree |-> IF act = 0 THEN NullTree ELSE BLI_bvhtree_new(act)]

MaskedIndices(n, mask) ==
    {i \in IndexRange(n) : ~(~IsEmpty(mask) /\ ~mask[i])}

bvhtree_from_mesh_verts_create_tree(positions_size, verts_mask, verts_num_active) ==
    LET c == bvhtree_new_common(positions_size, verts_num_active)
    IN  IF c.tree.null THEN NullTree
        ELSE BLI_bvhtree_insert_all(c.tree,
                 {<<i, 1>> : i \in MaskedIndices(positions_size, verts_mask)})

bvhtree_from_mesh_edges_create_tree(edges_size, edges_mask, edges_num_active) ==
    LET c == bvhtree_new_common(edges_size, edges_num_active)
    IN  IF c.tree.null THEN NullTree
        ELSE BLI_bvhtree_insert_all(c.tree,
                 {<<i, 2>> : i \in MaskedIndices(edges_size, edges_mask)})

bvhtree_from_mesh_faces_create_tree_3pt(positions_empty, face, face_null, faces_num, faces_mask, faces_num_active) ==
    LET c == bvhtree_new_common(faces_num, faces_num_active)
    IN  IF c.tree.null THEN NullTree
        ELSE IF ~positions_empty /\ ~face_null
             THEN BLI_bvhtree_insert_all(c.tree,
                      {<<i, 3>> : i \in MaskedIndices(faces_num, faces_mask)})
             ELSE c.tree

\* face: the MFace array (each <<v1, v2, v3, v4>>); face_null: the pointer is
\* null.  A face is bounded by 4 points when its v4 is non-zero, else by 3.
bvhtree_from_mesh_faces_create_tree(positions_empty, face, face_null, faces_num, faces_mask, faces_num_active) ==
    LET c == bvhtree_new_common(faces_num, faces_num_active)
    IN  IF c.tree.null THEN NullTree
        ELSE IF ~positions_empty /\ ~face_null
             THEN BLI_bvhtree_insert_all(c.tree,
                      {<<i, IF face[i][4] # 0 THEN 4 ELSE 3>> :
                          i \in MaskedIndices(faces_num, faces_mask)})
             ELSE c.tree

bvhtree_from_mesh_corner_tris_create_tree(positions_empty, corner_tris_size, corner_tris_mask, corner_tris_num_active) ==
    IF positions_empty THEN NullTree
    ELSE LET c == bvhtree_new_common(corner_tris_size, corner_tris_num_active)
         IN  IF c.tree.null THEN NullTree
             ELSE BLI_bvhtree_insert_all(c.tree,
                      {<<i, 3>> : i \in MaskedIndices(corner_tris_size, corner_tris_mask)})

-----------------------------------------------------------------------------
(* The mesh: what the builders read of it.                                 *)
(*   verts_num   number of vertices (the size of the position array)       *)
(*   edges       array of <<v0, v1>>                                        *)
(*   faces       array of faces, each the array of its corner edges; the   *)
(*               size of a face is its number of corners                   *)
(*   hide_vert, hide_edge, hide_poly   the visibility attributes           *)
(*   has_hide_poly   the ".hide_poly" attribute exists (otherwise the      *)
(*               lookup yields the single value false)                     *)
(*   mface       the legacy tessellated faces, each <<v1, v2, v3, v4>>       *)

face_triangles_num(face_size) == face_size - 2

FaceSizes(m) == [i \in DOMAIN m.faces |-> Size(m.faces[i])]

FaceTris(m) == [i \in DOMAIN m.faces |-> face_triangles_num(Size(m.faces[i]))]

\* Mesh::corner_tris().size()
CornerTrisNum(m) == SumTo(FaceTris(m), Size(m.faces))

\* mesh::face_triangles_range(faces, face_i): the triangles of a face
face_triangles_range(m, face_i) ==
    LET start == SumTo(FaceTris(m), face_i)
    IN  start .. (start + FaceTris(m)[face_i] - 1)

PositionsEmpty(m) == m.verts_num = 0

\* Mesh::loose_verts(): the vertices no edge uses; the bits are left empty
\* when there is none.
loose_verts(m) ==
    LET bits == [v \in IndexRange(m.verts_num) |->
                    \A e \in DOMAIN m.edges : m.edges[e][1] # v /\ m.edges[e][2] # v]
        n == CountTrue(bits)
    IN  [is_loose_bits |-> IF n = 0 THEN EmptySpan ELSE bits, count |-> n]

\* Mesh::loose_edges(): the edges no face uses.
loose_edges(m) ==
    LET bits == [e \in DOMAIN m.edges |->
                    \A f \in DOMAIN m.faces : \A c \in DOMAIN m.faces[f] : m.faces[f][c] # e]
        n == CountTrue(bits)
    IN  [is_loose_bits |-> IF n = 0 THEN EmptySpan ELSE bits, count |-> n]

-----------------------------------------------------------------------------
(* Active-element masks.  Each returns [mask, count]: the BitVector and    *)
(* the value written through the r_..._len pointer.                        *)

\* if (mask[i]) { mask[i].reset(); count--; }
ResetBit(st, i) ==
    IF st.mask[i] THEN [mask |-> [st.mask EXCEPT ![i] = FALSE], count |-> st.count - 1]
    ELSE st

RECURSIVE ResetEndpoints(_, _, _, _)
ResetEndpoints(m, hide, i, st) ==
    IF i = Size(m.edges) THEN st
    ELSE ResetEndpoints(m, hide, i + 1,
             IF hide[i] THEN st
             ELSE ResetBit(ResetBit(st, m.edges[i][1]), m.edges[i][2]))

RECURSIVE ResetHidden(_, _, _)
ResetHidden(hide, i, st) ==
    IF i = Size(st.mask) THEN st
    ELSE ResetHidden(hide, i + 1,
             IF st.mask[i] /\ hide[i] THEN ResetBit(st, i) ELSE st)

\* A mask that takes every edge for visible.
loose_verts_no_hidden_mask_get_all_edges(m) ==
    LET st0 == [mask |-> [v \in IndexRange(m.verts_num) |-> TRUE], count |-> m.verts_num]
        st1 == ResetEndpoints(m, [e \in DOMAIN m.edges |-> FALSE], 0, st0)
    IN  IF st1.count # 0 THEN ResetHidden(m.hide_vert, 0, st1) ELSE st1

loose_verts_no_hidden_mask_get(m) ==
    LET st0 == [mask |-> [v \in IndexRange(m.verts_num) |-> TRUE], count |-> m.verts_num]
        st1 == ResetEndpoints(m, m.hide_edge, 0, st0)
    IN  IF st1.count # 0 THEN ResetHidden(m.hide_vert, 0, st1) ELSE st1

RECURSIVE ResetCorners(_, _, _)
ResetCorners(face, c, st) ==
    IF c = Size(face) THEN st ELSE ResetCorners(face, c + 1, ResetBit(st, face[c]))

RECURSIVE ResetFaceEdges(_, _, _)
ResetFaceEdges(m, i, st) ==
    IF i = Size(m.faces) THEN st
    ELSE ResetFaceEdges(m, i + 1,
             IF m.hide_poly[i] THEN st ELSE ResetCorners(m.faces[i], 0, st))

\* A mask that skips the pass over the hidden edges.
loose_edges_no_hidden_mask_get_one_pass(m) ==
    LET ne == Size(m.edges)
        st0 == [mask |-> [e \in IndexRange(ne) |-> TRUE], count |-> ne]
    IN  ResetFaceEdges(m, 0, st0)

loose_edges_no_hidden_mask_get(m) ==
    LET ne == Size(m.edges)
        st0 == [mask |-> [e \in IndexRange(ne) |-> TRUE], count |-> ne]
        st1 == ResetFaceEdges(m, 0, st0)
    IN  IF st1.count # 0 THEN ResetHidden(m.hide_edge, 0, st1) ELSE st1

\* The walk over the faces: st = [mask, count, tri_index].
RECURSIVE WalkFaces(_, _, _, _)
WalkFaces(sizes, hide_poly, i, st) ==
    IF i = Size(sizes) THEN st
    ELSE LET triangles_num == face_triangles_num(sizes[i])
             cur == st.tri_index
         IN  WalkFaces(sizes, hide_poly, i + 1,
                 IF hide_poly[i]
                 THEN [st EXCEPT !.tri_index = cur + triangles_num]
                 ELSE [mask |-> [t \in DOMAIN st.mask |->
                                    IF t \in cur .. (cur + triangles_num - 1)
                                    THEN TRUE ELSE st.mask[t]],
                       count |-> st.count + triangles_num,
                       tri_index |-> cur + triangles_num])

\* A mask that takes every face for visible.
corner_tris_no_hidden_map_get_visible(sizes, hide_poly, hide_poly_single_false, corner_tris_len) ==
    IF hide_poly_single_false THEN [mask |-> EmptySpan, count |-> -1]
    ELSE [mask |-> [t \in IndexRange(corner_tris_len) |-> TRUE], count |-> corner_tris_len]

\* hide_poly_single_false: hide_poly.is_single() && !hide_poly.get_internal_single().
\* On that path the count is left as the caller initialised it (-1).
corner_tris_no_hidden_map_get(sizes, hide_poly, hide_poly_single_false, corner_tris_len) ==
    IF hide_poly_single_false THEN [mask |-> EmptySpan, count |-> -1]
    ELSE LET st == WalkFaces(sizes, hide_poly, 0,
                       [mask |-> [t \in IndexRange(corner_tris_len) |-> FALSE],
                        count |-> 0, tri_index |-> 0])
         IN  [mask |-> st.mask, count |-> st.count]

-----------------------------------------------------------------------------
(* Geometry kinds (BVHCacheType) and the cache slots of the mesh runtime *)

BVHTREE_FROM_VERTS == "VERTS"
BVHTREE_FROM_LOOSEVERTS == "LOOSEVERTS"
BVHTREE_FROM_LOOSEVERTS_NO_HIDDEN == "LOOSEVERTS_NO_HIDDEN"
BVHTREE_FROM_EDGES == "EDGES"
BVHTREE_FROM_LOOSEEDGES == "LOOSEEDGES"
BVHTREE_FROM_LOOSEEDGES_NO_HIDDEN == "LOOSEEDGES_NO_HIDDEN"
BVHTREE_FROM_FACES == "FACES"
BVHTREE_FROM_CORNER_TRIS == "CORNER_TRIS"
BVHTREE_FROM_CORNER_TRIS_NO_HIDDEN == "CORNER_TRIS_NO_HIDDEN"

Kinds ==
    {BVHTREE_FROM_VERTS, BVHTREE_FROM_LOOSEVERTS, BVHTREE_FROM_LOOSEVERTS_NO_HIDDEN,
     BVHTREE_FROM_EDGES, BVHTREE_FROM_LOOSEEDGES, BVHTREE_FROM_LOOSEEDGES_NO_HIDDEN,
     BVHTREE_FROM_FACES, BVHTREE_FROM_CORNER_TRIS, BVHTREE_FROM_CORNER_TRIS_NO_HIDDEN}

Slots ==
    {"bvh_cache_verts", "bvh_cache_loose_verts", "bvh_cache_loose_verts_no_hidden",
     "bvh_cache_edges", "bvh_cache_loose_edges", "bvh_cache_loose_edges_no_hidden",
     "bvh_cache_faces", "bvh_cache_corner_tris", "bvh_cache_corner_tris_no_hidden"}

\* The slot each getter passes to ensure() and reads with data():
\* Mesh::bvh_corner_tris_no_hidden() uses runtime->bvh_cache_verts for both.
GetterSlot(k) ==
    CASE k = BVHTREE_FROM_VERTS -> "bvh_cache_verts"
      [] k = BVHTREE_FROM_LOOSEVERTS -> "bvh_cache_loose_verts"
      [] k = BVHTREE_FROM_LOOSEVERTS_NO_HIDDEN -> "bvh_cache_loose_verts_no_hidden"
      [] k = BVHTREE_FROM_EDGES -> "bvh_cache_edges"
      [] k = BVHTREE_FROM_LOOSEEDGES -> "bvh_cache_loose_edges"
      [] k = BVHTREE_FROM_LOOSEEDGES_NO_HIDDEN -> "bvh_cache_loose_edges_no_hidden"
      [] k = BVHTREE_FROM_FACES -> "bvh_cache_faces"
      [] k = BVHTREE_FROM_CORNER_TRIS -> "bvh_cache_corner_tris"
      [] k = BVHTREE_FROM_CORNER_TRIS_NO_HIDDEN -> "bvh_cache_verts"

\* The build function each getter passes to ensure(): the tree it stores in
\* data.tree, before balancing.
GetterBuild(k, m) ==
    CASE k = BVHTREE_FROM_VERTS ->
            bvhtree_from_mesh_verts_create_tree(m.verts_num, EmptySpan, -1)
      [] k = BVHTREE_FROM_LOOSEVERTS ->
            LET lv == loose_verts(m)
            IN  bvhtree_from_mesh_verts_create_tree(m.verts_num, lv.is_loose_bits, lv.count)
      [] k = BVHTREE_FROM_LOOSEVERTS_NO_HIDDEN ->
            \* the mask is computed and then not passed on
            bvhtree_from_mesh_verts_create_tree(m.verts_num, EmptySpan, -1)
      [] k = BVHTREE_FROM_EDGES ->
            bvhtree_from_mesh_edges_create_tree(Size(m.edges), EmptySpan, -1)
      [] k = BVHTREE_FROM_LOOSEEDGES ->
            LET le == loose_edges(m)
            IN  bvhtree_from_mesh_edges_create_tree(Size(m.edges), le.is_loose_bits, le.count)
      [] k = BVHTREE_FROM_LOOSEEDGES_NO_HIDDEN ->
            LET r == loose_edges_no_hidden_mask_get(m)
            IN  bvhtree_from_mesh_edges_create_tree(Size(m.edges), r.mask, r.count)
      [] k = BVHTREE_FROM_FACES ->
            bvhtree_from_mesh_faces_create_tree(PositionsEmpty(m), m.mface, m.mface_null,
                                                Size(m.mface), EmptySpan, -1)
      [] k = BVHTREE_FROM_CORNER_TRIS ->
            bvhtree_from_mesh_corner_tris_create_tree(PositionsEmpty(m), CornerTrisNum(m),
                                                      EmptySpan, -1)
      [] k = BVHTREE_FROM_CORNER_TRIS_NO_HIDDEN ->
            LET r == corner_tris_no_hidden_map_get(FaceSizes(m), m.hide_poly,
                                                   ~m.has_hide_poly, CornerTrisNum(m))
            IN  bvhtree_from_mesh_corner_tris_create_tree(PositionsEmpty(m), CornerTrisNum(m),
                                                          r.mask, r.count)

-----------------------------------------------------------------------------
(* The meshes the cache is exercised on: nv vertices, the first ne edges   *)
(* of the ring 0-1-...-(nv-1)-0 and, when the ring is closed, optionally   *)
(* the face it bounds (a triangle or a quad, with its legacy tessellated   *)
(* face), with at most MaxHidden elements flagged hidden.  The visibility  *)
(* attributes exist once something has been hidden.                        *)

RingEdges(nv) == IF nv < 2 THEN 0 ELSE IF nv = 2 THEN 1 ELSE nv

RingFaces(nv, ne) == IF ne = nv /\ nv \in {3, 4} THEN 1 ELSE 0

MeshOf(nv, ne, nf, HV, HE, HF) ==
    [verts_num |-> nv,
     edges |-> [i \in IndexRange(ne) |-> <<i, (i + 1) % nv>>],
     faces |-> [f \in IndexRange(nf) |-> [c \in IndexRange(nv) |-> c]],
     hide_vert |-> [v \in IndexRange(nv) |-> v \in HV],
     hide_edge |-> [e \in IndexRange(ne) |-> e \in HE],
     hide_poly |-> [f \in IndexRange(nf) |-> f \in HF],
     has_hide_poly |-> (HV \cup HE \cup HF) # {},
     mface |-> [f \in IndexRange(nf) |-> <<0, 1, 2, IF nv > 3 THEN 3 ELSE 0>>],
     mface_null |-> (nf = 0)]

Meshes ==
    UNION {UNION {UNION {
        {MeshOf(nv, ne, nf, HV, HE, HF) :
            <<HV, HE, HF>> \in
                {h \in (SUBSET IndexRange(nv)) \X (SUBSET IndexRange(ne)) \X (SUBSET IndexRange(nf)) :
                    Cardinality(h[1]) + Cardinality(h[2]) + Cardinality(h[3]) <= MaxHidden}}
        : nf \in 0 .. RingFaces(nv, ne)}
        : ne \in 0 .. RingEdges(nv)}
        : nv \in 0 .. MaxVerts}

-----------------------------------------------------------------------------
(* Query bundles (BVHTreeFromMesh) and tree handles.  A handle is          *)
(* <<owner, n>>: the n-th tree allocated for a cache slot or for bundles;  *)
(* nullptr is the null handle.                                             *)

nullptr == << >>

\* The references a bundle carries are recorded as "given" (the mesh's
\* array) or not ({} or nullptr).
bvhtree_from_mesh_setup_data(tree, bvh_cache_type, edges, corner_verts, corner_tris, face) ==
    [tree |-> tree,
     owned_tree |-> nullptr,
     kind |-> bvh_cache_type,
     vert_positions |-> TRUE,
     edges |-> edges,
     face |-> face,
     corner_verts |-> corner_verts,
     corner_tris |-> corner_tris,
     nearest_callback |->
        CASE bvh_cache_type \in {BVHTREE_FROM_VERTS, BVHTREE_FROM_LOOSEVERTS,
                                 BVHTREE_FROM_LOOSEVERTS_NO_HIDDEN} -> "nullptr"
          [] bvh_cache_type \in {BVHTREE_FROM_EDGES, BVHTREE_FROM_LOOSEEDGES,
                                 BVHTREE_FROM_LOOSEEDGES_NO_HIDDEN} -> "mesh_edges_nearest_point"
          [] bvh_cache_type = BVHTREE_FROM_FACES -> "mesh_faces_nearest_point"
          [] bvh_cache_type \in {BVHTREE_FROM_CORNER_TRIS,
                                 BVHTREE_FROM_CORNER_TRIS_NO_HIDDEN} -> "mesh_corner_tris_nearest_point",
     raycast_callback |->
        CASE bvh_cache_type \in {BVHTREE_FROM_VERTS, BVHTREE_FROM_LOOSEVERTS,
                                 BVHTREE_FROM_LOOSEVERTS_NO_HIDDEN} -> "mesh_verts_spherecast"
          [] bvh_cache_type \in {BVHTREE_FROM_EDGES, BVHTREE_FROM_LOOSEEDGES,
                                 BVHTREE_FROM_LOOSEEDGES_NO_HIDDEN} -> "mesh_edges_spherecast"
          [] bvh_cache_type = BVHTREE_FROM_FACES -> "mesh_faces_spherecast"
          [] bvh_cache_type \in {BVHTREE_FROM_CORNER_TRIS,
                                 BVHTREE_FROM_CORNER_TRIS_NO_HIDDEN} -> "mesh_corner_tris_spherecast"]

\* The bundle each getter returns for the tree it read from its slot.
GetterBundle(k, tree) ==
    CASE k \in {BVHTREE_FROM_VERTS, BVHTREE_FROM_LOOSEVERTS, BVHTREE_FROM_LOOSEVERTS_NO_HIDDEN} ->
            bvhtree_from_mesh_setup_data(tree, k, FALSE, FALSE, FALSE, FALSE)
      [] k \in {BVHTREE_FROM_EDGES, BVHTREE_FROM_LOOSEEDGES} ->
            bvhtree_from_mesh_setup_data(tree, k, TRUE, FALSE, FALSE, FALSE)
      [] k = BVHTREE_FROM_LOOSEEDGES_NO_HIDDEN ->
            bvhtree_from_mesh_setup_data(tree, k, FALSE, FALSE, FALSE, FALSE)
      [] k = BVHTREE_FROM_FACES ->
            bvhtree_from_mesh_setup_data(tree, k, FALSE, FALSE, FALSE, FALSE)
      [] k \in {BVHTREE_FROM_CORNER_TRIS, BVHTREE_FROM_CORNER_TRIS_NO_HIDDEN} ->
            bvhtree_from_mesh_setup_data(tree, k, FALSE, TRUE, TRUE, FALSE)

\* BVHTreeFromMesh data{}: a value-initialised bundle
NoBundle ==
    [tree |-> nullptr, owned_tree |-> nullptr, kind |-> "-", vert_positions |-> FALSE,
     edges |-> FALSE, face |-> FALSE, corner_verts |-> FALSE, corner_tris |-> FALSE,
     nearest_callback |-> "nullptr", raycast_callback |-> "nullptr"]

-----------------------------------------------------------------------------
(* The state of the cache and of the callers *)

Callers == 1 .. NumCallers

\* pc: idle    not in a call
\*     ensure  in a getter, at the call of ensure()
\*     create  in the build function, before data.tree is assigned
\*     balance in the build function, data.tree assigned and not yet balanced
\*     exit    the build function has returned, ensure() has not
\*     data    ensure() has returned, data() not yet read
\*     done    the bundle has been returned and is held by the caller
\* hit: the slot was already built when the getter was called.
IdleFrame == [pc |-> "idle", op |-> "-", kind |-> "-", bundle |-> NoBundle, hit |-> FALSE]

EmptySlot == [valid |-> FALSE, owner |-> 0, tree |-> nullptr]

NoSnapshot == [built |-> FALSE, kb |-> 0, trees |-> {}]

NoInput == [builder |-> "-"]

NoOutput == [stage |-> "-"]

InitCache ==
    /\ cache = [s \in Slots |-> EmptySlot]
    /\ heap = << >>
    /\ callers = [t \in Callers |-> IdleFrame]
    /\ alive = TRUE
    /\ epoch = 0
    /\ builds = [s \in Slots |-> 0]
    /\ kbuilds = [k \in Kinds |-> 0]
    /\ seen = [k \in Kinds |-> {}]
    /\ before = [kinds |-> [k \in Kinds |-> NoSnapshot], slots |-> [s \in Slots |-> 0]]

Init ==
    /\ mesh \in Meshes
    /\ InitCache
    /\ calls_left = MaxCalls
    /\ bin = NoInput
    /\ bout = NoOutput

Goto(t, pc) == callers' = [callers EXCEPT ![t].pc = pc]

\* A getter is called: Mesh::bvh_verts() and its eight siblings.
Call(t, k) ==
    /\ alive
    /\ callers[t].pc = "idle"
    /\ calls_left > 0
    /\ calls_left' = calls_left - 1
    /\ callers' = [callers EXCEPT ![t] =
           [pc |-> "ensure", op |-> "cached", kind |-> k, bundle |-> NoBundle,
            hit |-> cache[GetterSlot(k)].valid]]
    /\ UNCHANGED <<mesh, cache, heap, alive, epoch, builds, kbuilds, seen, before, bin, bout>>

\* SharedCache::ensure(): a built slot is returned at once; otherwise the
\* first caller takes the slot's mutex and runs the build function, and any
\* other caller waits until the mutex is free again.
CacheEnsure(t, s) ==
    \/ /\ cache[s].valid
       /\ Goto(t, "data")
       /\ UNCHANGED cache
    \/ /\ ~cache[s].valid
       /\ cache[s].owner = 0
       /\ cache' = [cache EXCEPT ![s].owner = t]
       /\ Goto(t, "create")

\* A getter that rebuilds on every call.
GetterEnsureAlways(t, k) ==
    /\ Goto(t, "create")
    /\ UNCHANGED cache

\* A getter that tests data.tree instead of calling ensure().
GetterEnsureNullCheck(t, k) ==
    /\ Goto(t, IF cache[GetterSlot(k)].tree = nullptr THEN "create" ELSE "data")
    /\ UNCHANGED cache

\* A getter that tests data.tree before calling ensure().
GetterEnsureTreeFirst(t, k) ==
    IF cache[GetterSlot(k)].tree # nullptr
    THEN Goto(t, "data") /\ UNCHANGED cache
    ELSE CacheEnsure(t, GetterSlot(k))

\* A getter whose build function runs only when the slot holds no tree.
GetterEnsureSkipNull(t, k) ==
    IF cache[GetterSlot(k)].valid /\ cache[GetterSlot(k)].tree = nullptr
    THEN /\ cache' = [cache EXCEPT ![GetterSlot(k)].owner = t]
         /\ Goto(t, "create")
    ELSE CacheEnsure(t, GetterSlot(k))

\* this->runtime->bvh_cache_X.ensure([&](BVHCacheItem &data) {...})
GetterEnsure(t, k) == CacheEnsure(t, GetterSlot(k))

EnsureEnter(t) ==
    /\ callers[t].pc = "ensure"
    /\ GetterEnsure(t, callers[t].kind)
    /\ UNCHANGED <<mesh, heap, alive, epoch, builds, kbuilds, seen, before, calls_left, bin, bout>>

NewHeapTree(tree, k) ==
    [by |-> k, cap |-> tree.cap, leaves |-> tree.leaves, balanced |-> tree.balanced,
     freed |-> 0]

\* data.tree = bvhtree_from_mesh_..._create_tree(...)
Create(t) ==
    /\ callers[t].pc = "create"
    /\ LET k == callers[t].kind
           s == GetterSlot(k)
           tree == GetterBuild(k, mesh)
           h == IF tree.null THEN nullptr ELSE <<s, builds[s] + 1>>
       IN  /\ heap' = IF tree.null THEN heap ELSE heap @@ (h :> NewHeapTree(tree, k))
           /\ cache' = [cache EXCEPT ![s].tree = h]
           /\ builds' = [builds EXCEPT ![s] = @ + 1]
           /\ kbuilds' = [kbuilds EXCEPT ![k] = @ + 1]
    /\ Goto(t, "balance")
    /\ UNCHANGED <<mesh, alive, epoch, seen, before, calls_left, bin, bout>>

\* if (data.tree) { BLI_bvhtree_balance(data.tree); }
Balance(t) ==
    /\ callers[t].pc = "balance"
    /\ LET h == cache[GetterSlot(callers[t].kind)].tree
       IN  heap' = IF h # nullptr THEN [heap EXCEPT ![h].balanced = TRUE] ELSE heap
    /\ Goto(t, "exit")
    /\ UNCHANGED <<mesh, cache, alive, epoch, builds, kbuilds, seen, before, calls_left, bin, bout>>

\* The build function has returned: the slot is marked built and the mutex
\* released.
CacheEnsureDone(t, s) ==
    cache' = [cache EXCEPT ![s].valid = TRUE, ![s].owner = 0]

EnsureExit(t) ==
    /\ callers[t].pc = "exit"
    /\ CacheEnsureDone(t, GetterSlot(callers[t].kind))
    /\ Goto(t, "data")
    /\ UNCHANGED <<mesh, heap, alive, epoch, builds, kbuilds, seen, before, calls_left, bin, bout>>

\* const BVHCacheItem &tree = this->runtime->bvh_cache_X.data();
\* return bvhtree_from_mesh_setup_data(tree.tree, ...);
ReadData(t) ==
    /\ callers[t].pc = "data"
    /\ LET k == callers[t].kind
           h == cache[GetterSlot(k)].tree
       IN  /\ callers' = [callers EXCEPT ![t].pc = "done", ![t].bundle = GetterBundle(k, h)]
           /\ seen' = [seen EXCEPT ![k] = @ \cup {h}]
    /\ UNCHANGED <<mesh, cache, heap, alive, epoch, builds, kbuilds, before, calls_left, bin, bout>>

\* BLI_bvhtree_free(tree): nothing on the null handle
BLI_bvhtree_free(hp, h) ==
    IF h # nullptr THEN [hp EXCEPT ![h].freed = @ + 1] ELSE hp

\* The bundle goes out of scope: its owned_tree, if any, is freed.
Drop(t) ==
    /\ callers[t].pc = "done"
    /\ callers[t].op # "pointcloud"
    /\ heap' = BLI_bvhtree_free(heap, callers[t].bundle.owned_tree)
    /\ callers' = [callers EXCEPT ![t] = IdleFrame]
    /\ UNCHANGED <<mesh, cache, alive, epoch, builds, kbuilds, seen, before, calls_left, bin, bout>>

\* invalidate_cache(): every slot is empty again.  The mesh is edited under
\* exclusive access, so no getter is running and no bundle is held.
Invalidate ==
    /\ alive
    /\ epoch < MaxEpoch
    /\ \A t \in Callers : callers[t].pc = "idle"
    /\ cache' = [s \in Slots |-> [cache[s] EXCEPT !.valid = FALSE]]
    /\ epoch' = epoch + 1
    /\ before' = [kinds |-> [k \in Kinds |->
                                 [built |-> seen[k] # {}, kb |-> kbuilds[k], trees |-> seen[k]]],
                   slots |-> builds]
    /\ seen' = [k \in Kinds |-> {}]
    /\ UNCHANGED <<mesh, heap, callers, alive, builds, kbuilds, calls_left, bin, bout>>

Next ==
    \/ \E t \in Callers, k \in Kinds : Call(t, k)
    \/ \E t \in Callers : EnsureEnter(t)
    \/ \E t \in Callers : Create(t)
    \/ \E t \in Callers : Balance(t)
    \/ \E t \in Callers : EnsureExit(t)
    \/ \E t \in Callers : ReadData(t)
    \/ \E t \in Callers : Drop(t)
    \/ Invalidate

Spec == Init /\ [][Next]_vars

-----------------------------------------------------------------------------
(* Trees built over an index subset, owned by the bundle, and the          *)
(* destruction of the mesh's runtime data.                                 *)

\* tris_num: the triangles of the faces of faces_mask
RECURSIVE SubsetTrisNum(_, _)
SubsetTrisNum(m, faces_mask) ==
    IF faces_mask = {} THEN 0
    ELSE LET i == CHOOSE f \in faces_mask : TRUE
         IN  face_triangles_num(Size(m.faces[i])) + SubsetTrisNum(m, faces_mask \ {i})

\* A subset build that inserts each requested face under its face index.
mesh_tris_init_tree_faces(m, faces_mask) ==
    LET c == bvhtree_new_common(SubsetTrisNum(m, faces_mask), -1)
    IN  IF c.tree.null THEN NullTree
        ELSE BLI_bvhtree_balance(BLI_bvhtree_insert_all(c.tree,
                 {<<face_i, 3>> : face_i \in faces_mask}))

\* BKE_bvhtree_from_mesh_tris_init, when the mask is not the full face set
mesh_tris_init_tree(m, faces_mask) ==
    LET c == bvhtree_new_common(SubsetTrisNum(m, faces_mask), -1)
    IN  IF c.tree.null THEN NullTree
        ELSE BLI_bvhtree_balance(BLI_bvhtree_insert_all(c.tree,
                 {<<tri_i, 3>> : tri_i \in UNION {face_triangles_range(m, f) : f \in faces_mask}}))

\* BKE_bvhtree_from_mesh_edges_init, when the mask is not the full edge set
mesh_edges_init_tree(edges_mask) ==
    LET c == bvhtree_new_common(Cardinality(edges_mask), -1)
    IN  IF c.tree.null THEN NullTree
        ELSE BLI_bvhtree_balance(BLI_bvhtree_insert_all(c.tree,
                 {<<edge_i, 2>> : edge_i \in edges_mask}))

\* BKE_bvhtree_from_mesh_verts_init, when the mask is not the full vertex set
mesh_verts_init_tree(verts_mask) ==
    LET c == bvhtree_new_common(Cardinality(verts_mask), -1)
    IN  IF c.tree.null THEN NullTree
        ELSE BLI_bvhtree_balance(BLI_bvhtree_insert_all(c.tree,
                 {<<vert_i, 1>> : vert_i \in verts_mask}))

\* BKE_bvhtree_from_pointcloud_get
pointcloud_get_tree(points_mask) ==
    LET c == bvhtree_new_common(Cardinality(points_mask), -1)
    IN  IF c.tree.null THEN NullTree
        ELSE BLI_bvhtree_balance(BLI_bvhtree_insert_all(c.tree,
                 {<<i, 1>> : i \in points_mask}))

SubsetOps == {"tris_init", "edges_init", "verts_init"}

\* The number of elements of the mesh the mask size is compared with
SubsetElems(op, m) ==
    CASE op = "tris_init" -> Size(m.faces)
      [] op = "edges_init" -> Size(m.edges)
      [] op = "verts_init" -> m.verts_num

\* The cached getter called when the mask covers every element
SubsetKind(op) ==
    CASE op = "tris_init" -> BVHTREE_FROM_CORNER_TRIS
      [] op = "edges_init" -> BVHTREE_FROM_EDGES
      [] op = "verts_init" -> BVHTREE_FROM_VERTS

SubsetTree(op, m, mask) ==
    CASE op = "tris_init" -> mesh_tris_init_tree(m, mask)
      [] op = "edges_init" -> mesh_edges_init_tree(mask)
      [] op = "verts_init" -> mesh_verts_init_tree(mask)

\* r_data = bvhtree_from_mesh_setup_data(nullptr, ...) of the three functions
SubsetBundle(op) ==
    CASE op = "tris_init" ->
            bvhtree_from_mesh_setup_data(nullptr, BVHTREE_FROM_CORNER_TRIS, TRUE, TRUE, TRUE, FALSE)
      [] op = "edges_init" ->
            bvhtree_from_mesh_setup_data(nullptr, BVHTREE_FROM_EDGES, TRUE, FALSE, FALSE, FALSE)
      [] op = "verts_init" ->
            bvhtree_from_mesh_setup_data(nullptr, BVHTREE_FROM_VERTS, FALSE, FALSE, FALSE, FALSE)

OwnedHandles == {h \in DOMAIN heap : h[1] = "owned"}

NewOwnedHandle == <<"owned", Cardinality(OwnedHandles) + 1>>

\* r_data.owned_tree = std::unique_ptr<BVHTree, BVHTreeDeleter>(tree)
SubsetOwner(h) == h

\* BKE_bvhtree_from_mesh_{tris,edges,verts}_init(mesh, mask, r_data)
SubsetInit(t, op, mask) ==
    /\ alive
    /\ callers[t].pc = "idle"
    /\ calls_left > 0
    /\ calls_left' = calls_left - 1
    /\ IF Cardinality(mask) = SubsetElems(op, mesh)
       THEN /\ callers' = [callers EXCEPT ![t] =
                   [pc |-> "ensure", op |-> op, kind |-> SubsetKind(op), bundle |-> NoBundle,
                    hit |-> cache[GetterSlot(SubsetKind(op))].valid]]
            /\ heap' = heap
       ELSE LET tree == SubsetTree(op, mesh, mask)
                h == IF tree.null THEN nullptr ELSE NewOwnedHandle
            IN  /\ heap' = IF tree.null THEN heap
                           ELSE heap @@ (h :> NewHeapTree(tree, op))
                /\ callers' = [callers EXCEPT ![t] =
                       [pc |-> "done", op |-> op, kind |-> SubsetKind(op),
                        bundle |-> [SubsetBundle(op) EXCEPT !.tree = h,
                                                              !.owned_tree = SubsetOwner(h)],
                        hit |-> FALSE]]
    /\ UNCHANGED <<mesh, cache, alive, epoch, builds, kbuilds, seen, before, bin, bout>>

\* BKE_bvhtree_from_pointcloud_get(pointcloud, points_mask, r_data)
PointCloudGet(t, points_mask) ==
    /\ callers[t].pc = "idle"
    /\ calls_left > 0
    /\ calls_left' = calls_left - 1
    /\ LET tree == pointcloud_get_tree(points_mask)
           h == IF tree.null THEN nullptr ELSE NewOwnedHandle
       IN  /\ heap' = IF tree.null THEN heap
                      ELSE heap @@ (h :> NewHeapTree(tree, "pointcloud"))
           /\ callers' = [callers EXCEPT ![t] =
                  [pc |-> "done", op |-> "pointcloud", kind |-> "-",
                   bundle |-> [NoBundle EXCEPT !.tree = h, !.vert_positions = ~tree.null],
                   hit |-> FALSE]]
    /\ UNCHANGED <<mesh, cache, alive, epoch, builds, kbuilds, seen, before, bin, bout>>

\* free_bvhtree_from_pointcloud(data): frees data->tree if set, then zeroes
\* the bundle.  It may be called again on the zeroed bundle.
FreePointCloud(t) ==
    /\ callers[t].pc = "done"
    /\ callers[t].op = "pointcloud"
    /\ heap' = IF callers[t].bundle.tree # nullptr
               THEN BLI_bvhtree_free(heap, callers[t].bundle.tree) ELSE heap
    /\ callers' = [callers EXCEPT ![t].bundle = NoBundle]
    /\ UNCHANGED <<mesh, cache, alive, epoch, builds, kbuilds, seen, before, calls_left, bin, bout>>

\* The point-cloud bundle, released, goes out of scope.
DropPointCloud(t) ==
    /\ callers[t].pc = "done"
    /\ callers[t].op = "pointcloud"
    /\ callers[t].bundle.tree = nullptr
    /\ callers' = [callers EXCEPT ![t] = IdleFrame]
    /\ UNCHANGED <<mesh, cache, heap, alive, epoch, builds, kbuilds, seen, before, calls_left, bin, bout>>

\* A destructor that leaves the tree allocated.
BVHCacheItem_dtor_leak(item) == nullptr

\* BVHCacheItem::~BVHCacheItem(): the handle passed to BLI_bvhtree_free
BVHCacheItem_dtor(item) == item.tree

\* The mesh's runtime data is destroyed: every slot's item is destructed.
DestroyMesh ==
    /\ alive
    /\ \A t \in Callers : callers[t].pc \in {"idle", "done"}
    /\ alive' = FALSE
    /\ heap' = [h \in DOMAIN heap |->
                   [heap[h] EXCEPT !.freed =
                       @ + Cardinality({s \in Slots : BVHCacheItem_dtor(cache[s]) = h})]]
    /\ UNCHANGED <<mesh, cache, callers, epoch, builds, kbuilds, seen, before, calls_left, bin, bout>>

NextOwn ==
    \/ \E t \in Callers, k \in Kinds : Call(t, k)
    \/ \E t \in Callers, op \in SubsetOps :
           \E mask \in SUBSET IndexRange(SubsetElems(op, mesh)) : SubsetInit(t, op, mask)
    \/ \E t \in Callers : \E mask \in SUBSET IndexRange(MaxPoints) : PointCloudGet(t, mask)
    \/ \E t \in Callers : EnsureEnter(t)
    \/ \E t \in Callers : Create(t)
    \/ \E t \in Callers : Balance(t)
    \/ \E t \in Callers : EnsureExit(t)
    \/ \E t \in Callers : ReadData(t)
    \/ \E t \in Callers : Drop(t)
    \/ \E t \in Callers : FreePointCloud(t)
    \/ \E t \in Callers : DropPointCloud(t)
    \/ DestroyMesh

InitOwn ==
    /\ mesh \in Meshes
    /\ InitCache
    /\ calls_left = MaxOwnCalls
    /\ bin = NoInput
    /\ bout = NoOutput

SpecOwn == InitOwn /\ [][NextOwn]_vars

-----------------------------------------------------------------------------
(* The builders on their own: one builder call on an input drawn from the  *)
(* bounded sets below, followed by the balancing of the bvhtree_from_..._ex *)
(* wrappers and by a query on the resulting tree.                          *)

MaskDriven == {"verts", "edges", "faces", "corner_tris"}

IndexDriven == {"tris_init", "edges_init", "verts_init", "pointcloud"}

\* The masks of n elements, the empty mask ("all active") among them, each
\* with the active counts a caller passes: the number of set bits, or -1.
MaskInputs(n) ==
    {[mask |-> mk, active |-> a] :
        <<mk, a>> \in {x \in ({EmptySpan} \cup Array(n, BOOLEAN)) \X (-1 .. n) :
                          x[2] \in {-1, IF IsEmpty(x[1]) THEN n ELSE CountTrue(x[1])}}}

\* Faces of 3 or 4 corners, for the triangle counts of tris_init
FaceArrays == UNION {Array(nf, {3, 4}) : nf \in 0 .. MaxFaces}

FacesOfSizes(sizes) == [faces |-> [f \in DOMAIN sizes |-> [c \in IndexRange(sizes[f]) |-> c]]]

BuilderInputs ==
    UNION {
        {[builder |-> b, n |-> n, mask |-> mi.mask, active |-> mi.active,
          positions_empty |-> pe, face_null |-> fn,
          face |-> [i \in IndexRange(n) |-> <<0, 1, 2, v4>>]] :
            b \in MaskDriven, mi \in MaskInputs(n), pe \in BOOLEAN, fn \in BOOLEAN, v4 \in {0, 3}}
        : n \in 0 .. MaxElems}
    \cup UNION {
        {[builder |-> "tris_init", sizes |-> sizes, index_mask |-> im] :
            im \in {x \in SUBSET DOMAIN sizes : Cardinality(x) # Size(sizes)}}
        : sizes \in FaceArrays}
    \cup UNION {
        {[builder |-> b, n |-> n, index_mask |-> im] :
            b \in {"edges_init", "verts_init"},
            im \in {x \in SUBSET IndexRange(n) : Cardinality(x) # n}}
        : n \in 0 .. MaxElems}
    \cup {[builder |-> "pointcloud", index_mask |-> im] : im \in SUBSET IndexRange(MaxElems)}

\* Inputs that differ only in a parameter their builder does not take
RelevantInput(i) ==
    CASE i.builder \in {"verts", "edges"} -> ~i.positions_empty /\ ~i.face_null /\ i.face = [x \in IndexRange(i.n) |-> <<0, 1, 2, 0>>]
      [] i.builder = "corner_tris" -> ~i.face_null /\ i.face = [x \in IndexRange(i.n) |-> <<0, 1, 2, 0>>]
      [] OTHER -> TRUE

InitBuild ==
    /\ mesh = MeshOf(0, 0, 0, {}, {}, {})
    /\ InitCache
    /\ calls_left = 0
    /\ bin \in {i \in BuilderInputs : RelevantInput(i)}
    /\ bout = [stage |-> "in", tree |-> NullTree, result |-> NoMatch]

BuildDone(tree) ==
    /\ bout' = [bout EXCEPT !.stage = "created", !.tree = tree]
    /\ UNCHANGED <<mesh, cache, heap, callers, alive, epoch, builds, kbuilds, seen, before, calls_left, bin>>

BuildVerts ==
    /\ bout.stage = "in" /\ bin.builder = "verts"
    /\ BuildDone(bvhtree_from_mesh_verts_create_tree(bin.n, bin.mask, bin.active))

BuildEdges ==
    /\ bout.stage = "in" /\ bin.builder = "edges"
    /\ BuildDone(bvhtree_from_mesh_edges_create_tree(bin.n, bin.mask, bin.active))

BuildFaces ==
    /\ bout.stage = "in" /\ bin.builder = "faces"
    /\ BuildDone(bvhtree_from_mesh_faces_create_tree(bin.positions_empty, bin.face,
                     bin.face_null, bin.n, bin.mask, bin.active))

BuildCornerTris ==
    /\ bout.stage = "in" /\ bin.builder = "corner_tris"
    /\ BuildDone(bvhtree_from_mesh_corner_tris_create_tree(bin.positions_empty, bin.n,
                     bin.mask, bin.active))

BuildTrisInit ==
    /\ bout.stage = "in" /\ bin.builder = "tris_init"
    /\ BuildDone(mesh_tris_init_tree(FacesOfSizes(bin.sizes), bin.index_mask))

BuildEdgesInit ==
    /\ bout.stage = "in" /\ bin.builder = "edges_init"
    /\ BuildDone(mesh_edges_init_tree(bin.index_mask))

BuildVertsInit ==
    /\ bout.stage = "in" /\ bin.builder = "verts_init"
    /\ BuildDone(mesh_verts_init_tree(bin.index_mask))

BuildPointCloud ==
    /\ bout.stage = "in" /\ bin.builder = "pointcloud"
    /\ BuildDone(pointcloud_get_tree(bin.index_mask))

\* bvhtree_balance(tree) of bvhtree_from_mesh_{verts,edges,corner_tris}_ex
BalanceEx ==
    /\ bout.stage = "created"
    /\ bout' = [bout EXCEPT !.stage = "balanced", !.tree = bvhtree_balance(bout.tree)]
    /\ UNCHANGED <<mesh, cache, heap, callers, alive, epoch, builds, kbuilds, seen, before, calls_left, bin>>

\* A nearest-point or ray-cast query on the bundle of the tree
Query ==
    /\ bout.stage = "balanced"
    /\ \E r \in QueryResults(bout.tree) :
           bout' = [bout EXCEPT !.stage = "queried", !.result = r]
    /\ UNCHANGED <<mesh, cache, heap, callers, alive, epoch, builds, kbuilds, seen, before, calls_left, bin>>

NextBuild ==
    \/ BuildVerts
    \/ BuildEdges
    \/ BuildFaces
    \/ BuildCornerTris
    \/ BuildTrisInit
    \/ BuildEdgesInit
    \/ BuildVertsInit
    \/ BuildPointCloud
    \/ BalanceEx
    \/ Query

SpecBuild == InitBuild /\ [][NextBuild]_vars

-----------------------------------------------------------------------------
(* The subset builders on meshes of several faces: triangles and quads     *)
(* over up to MaxSubsetVerts vertices, nothing hidden.  A face's corners   *)
(* index the ring edges modulo their number; the subset builders read the  *)
(* face sizes only.                                                        *)

SubsetMesh(nv, ne, sizes) ==
    [verts_num |-> nv,
     edges |-> [i \in IndexRange(ne) |-> <<i, (i + 1) % nv>>],
     faces |-> [f \in DOMAIN sizes |-> [c \in IndexRange(sizes[f]) |-> c % ne]],
     hide_vert |-> [v \in IndexRange(nv) |-> FALSE],
     hide_edge |-> [e \in IndexRange(ne) |-> FALSE],
     hide_poly |-> [f \in DOMAIN sizes |-> FALSE],
     has_hide_poly |-> FALSE,
     mface |-> << >>,
     mface_null |-> TRUE]

SubsetMeshes ==
    UNION {UNION {
        {SubsetMesh(nv, ne, sizes) :
            sizes \in {sz \in FaceArrays : \A f \in DOMAIN sz : sz[f] <= nv /\ ne > 0}}
        : ne \in 0 .. (IF RingEdges(nv) < MaxElems THEN RingEdges(nv) ELSE MaxElems)}
        : nv \in 0 .. MaxSubsetVerts}

InitSubset ==
    /\ mesh \in SubsetMeshes
    /\ InitCache
    /\ calls_left = MaxOwnCalls
    /\ bin = NoInput
    /\ bout = NoOutput

NextSubset ==
    \/ \E t \in Callers, op \in SubsetOps :
           \E mask \in SUBSET IndexRange(SubsetElems(op, mesh)) : SubsetInit(t, op, mask)
    \/ \E t \in Callers : EnsureEnter(t)
    \/ \E t \in Callers : Create(t)
    \/ \E t \in Callers : Balance(t)
    \/ \E t \in Callers : EnsureExit(t)
    \/ \E t \in Callers : ReadData(t)
    \/ \E t \in Callers : Drop(t)

SpecSubset == InitSubset /\ [][NextSubset]_vars

-----------------------------------------------------------------------------
(* The "no hidden" build functions on meshes with any visibility flags:    *)
(* up to MaxSubsetVerts vertices, the first edges of EdgePalette whose     *)
(* endpoints exist, up to MaxFaces of the faces of FacePalette whose       *)
(* corner edges exist, any element hidden.  The ".hide_poly" attribute is  *)
(* stored whenever a face is hidden and may be stored with no face hidden. *)

\* Two triangles 0-1-2 and 2-3-0 sharing the edge 2-0, and the quad around
\* them.
EdgePalette == << <<0, 1>>, <<1, 2>>, <<2, 0>>, <<2, 3>>, <<3, 0>> >>

\* Faces as arrays of corner edges (indices into EdgePalette)
FacePalette ==
    {[c \in IndexRange(3) |-> <<0, 1, 2>>[c + 1]],
     [c \in IndexRange(3) |-> <<3, 4, 2>>[c + 1]],
     [c \in IndexRange(4) |-> <<0, 1, 3, 4>>[c + 1]]}

MaskMesh(nv, ne, faces, HV, HE, HF, stored) ==
    [verts_num |-> nv,
     edges |-> [i \in IndexRange(ne) |-> EdgePalette[i + 1]],
     faces |-> faces,
     hide_vert |-> [v \in IndexRange(nv) |-> v \in HV],
     hide_edge |-> [e \in IndexRange(ne) |-> e \in HE],
     hide_poly |-> [f \in DOMAIN faces |-> f \in HF],
     has_hide_poly |-> stored,
     mface |-> << >>,
     mface_null |-> TRUE]

\* The numbers of palette edges a mesh of nv vertices can have
PaletteEdges(nv) ==
    {ne \in 0 .. Len(EdgePalette) :
        \A i \in 1 .. ne : EdgePalette[i][1] < nv /\ EdgePalette[i][2] < nv}

\* The face arrays over ne edges: distinct palette faces, in any order
PaletteFaces(ne) ==
    UNION {{fs \in Array(nf, FacePalette) :
               /\ \A f \in DOMAIN fs : \A c \in DOMAIN fs[f] : fs[f][c] < ne
               /\ \A f \in DOMAIN fs, g \in DOMAIN fs : f # g => fs[f] # fs[g]}
           : nf \in 0 .. MaxFaces}

NoMask == [stage |-> "in", kind |-> "-", mask |-> EmptySpan, count |-> -1, tree |-> NullTree]

InitMask ==
    /\ \E nv \in 0 .. MaxSubsetVerts :
          \E ne \in PaletteEdges(nv) :
              \E faces \in PaletteFaces(ne) :
                  \E HV \in SUBSET IndexRange(nv), HE \in SUBSET IndexRange(ne),
                     HF \in SUBSET DOMAIN faces, stored \in BOOLEAN :
                      /\ HF # {} => stored
                      /\ mesh = MaskMesh(nv, ne, faces, HV, HE, HF, stored)
    /\ InitCache
    /\ calls_left = 0
    /\ bin = NoInput
    /\ bout = NoMask

\* The build function of a "no hidden" getter has run: the mask and the
\* count its mask function returned, and the balanced tree it stored.
MaskBuilt(k, r) ==
    /\ bout.stage = "in"
    /\ bout' = [stage |-> "built", kind |-> k, mask |-> r.mask, count |-> r.count,
                tree |-> bvhtree_balance(GetterBuild(k, mesh))]
    /\ UNCHANGED <<mesh, cache, heap, callers, alive, epoch, builds, kbuilds, seen, before, calls_left, bin>>

BuildLooseVertsNoHidden ==
    MaskBuilt(BVHTREE_FROM_LOOSEVERTS_NO_HIDDEN, loose_verts_no_hidden_mask_get(mesh))

BuildLooseEdgesNoHidden ==
    MaskBuilt(BVHTREE_FROM_LOOSEEDGES_NO_HIDDEN, loose_edges_no_hidden_mask_get(mesh))

BuildCornerTrisNoHidden ==
    MaskBuilt(BVHTREE_FROM_CORNER_TRIS_NO_HIDDEN,
              corner_tris_no_hidden_map_get(FaceSizes(mesh), mesh.hide_poly,
                                            ~mesh.has_hide_poly, CornerTrisNum(mesh)))

NextMask ==
    \/ BuildLooseVertsNoHidden
    \/ BuildLooseEdgesNoHidden
    \/ BuildCornerTrisNoHidden

SpecMask == InitMask /\ [][NextMask]_vars

-----------------------------------------------------------------------------
(* The leaf callbacks.  A position is the id of a point in space; the      *)
(* generic vector math (closest points, intersections, lengths) is not     *)
(* part of this file and its results are inputs of each invocation:        *)
(*   nearest-point on a face or triangle: the squared distance of the      *)
(*       query point to each triangle over the leaf's vertices;            *)
(*   ray cast on a face or triangle: for each such triangle whether the    *)
(*       ray meets it and at which distance;                               *)
(*   nearest-point on an edge: the squared distance to the segment;        *)
(*   ray cast on a vertex or a zero-length edge: the sign of               *)
(*       dot_v3v3v3(r1, i1, r2) and len_v3v3(r1, i1);                       *)
(*   ray cast on an edge: what isect_line_line_v3 returns, the sign of     *)
(*       dot_v3v3v3(r1, i2, r2), len_v3v3(r1, i2), line_point_factor_v3      *)
(*       and the squared distances of i2 to i1, v1 and v2.                 *)
(* Vectors written to a result are recorded as the expression that         *)
(* computed them.                                                          *)

Dists == 0 .. MaxDist

\* "no hit": larger than every distance
FLT_MAX == MaxDist + 1

\* null for a pointer into the position array
NullPos == -1

Vec(f, a) == [f |-> f, a |-> a]

NoVec == Vec("-", << >>)

\* The running best a traversal starts from: no element, distance dist
NoResult(dist) == [index |-> -1, dist |-> dist, co |-> NoVec, no |-> NoVec]

TriKey(v0, v1, v2) == {v0, v1, v2}

\* isect_ray_tri_epsilon_v3 / isect_ray_tri_watertight_v3 on the triangle
bvhtree_ray_tri_intersection(g, m_dist, v0, v1, v2) ==
    IF g[TriKey(v0, v1, v2)].hit THEN g[TriKey(v0, v1, v2)].dist ELSE FLT_MAX

\* isect_sweeping_sphere_tri_v3 over the segment of length m_dist: a first
\* contact beyond the segment is not found; idist * m_dist is its distance
bvhtree_sphereray_tri_intersection(g, radius, m_dist, v0, v1, v2) ==
    IF g[TriKey(v0, v1, v2)].hit /\ g[TriKey(v0, v1, v2)].dist <= m_dist
    THEN g[TriKey(v0, v1, v2)].dist
    ELSE FLT_MAX

RECURSIVE mesh_faces_nearest_point_loop_v2v3v4(_, _, _, _, _, _, _)
mesh_faces_nearest_point_loop_v2v3v4(index, g, nearest, t0, t1, t2, t3) ==
    LET dist_sq == g[TriKey(t0, t1, t2)]
        n == IF dist_sq < nearest.dist
             THEN [index |-> index, dist |-> dist_sq,
                   co |-> Vec("closest_on_tri_to_point_v3", <<t0, t1, t2>>),
                   no |-> Vec("normal_tri_v3", <<t0, t1, t2>>)]
             ELSE nearest
    IN  IF t3 # NullPos
        THEN mesh_faces_nearest_point_loop_v2v3v4(index, g, n, t1, t2, t3, NullPos)
        ELSE n

\* The do-while loop of mesh_faces_nearest_point: the body, then
\* t1 = t2; t2 = t3; t3 = nullptr; while (t2)
RECURSIVE mesh_faces_nearest_point_loop(_, _, _, _, _, _, _)
mesh_faces_nearest_point_loop(index, g, nearest, t0, t1, t2, t3) ==
    LET dist_sq == g[TriKey(t0, t1, t2)]
        n == IF dist_sq < nearest.dist
             THEN [index |-> index, dist |-> dist_sq,
                   co |-> Vec("closest_on_tri_to_point_v3", <<t0, t1, t2>>),
                   no |-> Vec("normal_tri_v3", <<t0, t1, t2>>)]
             ELSE nearest
    IN  IF t3 # NullPos
        THEN mesh_faces_nearest_point_loop(index, g, n, t0, t2, t3, NullPos)
        ELSE n

mesh_faces_nearest_point(data, index, g, nearest) ==
    LET face == data.face[index]
    IN  mesh_faces_nearest_point_loop(index, g, nearest,
            data.vert_positions[face[1]],
            data.vert_positions[face[2]],
            data.vert_positions[face[3]],
            IF face[4] # 0 THEN data.vert_positions[face[4]] ELSE NullPos)

mesh_corner_tris_nearest_point_le(data, index, g, nearest) ==
    LET tri == data.corner_tris[index]
        v0 == data.vert_positions[data.corner_verts[tri[1]]]
        v1 == data.vert_positions[data.corner_verts[tri[2]]]
        v2 == data.vert_positions[data.corner_verts[tri[3]]]
        dist_sq == g[TriKey(v0, v1, v2)]
    IN  IF dist_sq <= nearest.dist
        THEN [index |-> index, dist |-> dist_sq,
              co |-> Vec("closest_on_tri_to_point_v3", <<v0, v1, v2>>),
              no |-> Vec("normal_tri_v3", <<v0, v1, v2>>)]
        ELSE nearest

mesh_corner_tris_nearest_point(data, index, g, nearest) ==
    LET tri == data.corner_tris[index]
        v0 == data.vert_positions[data.corner_verts[tri[1]]]
        v1 == data.vert_positions[data.corner_verts[tri[2]]]
        v2 == data.vert_positions[data.corner_verts[tri[3]]]
        dist_sq == g[TriKey(v0, v1, v2)]
    IN  IF dist_sq < nearest.dist
        THEN [index |-> index, dist |-> dist_sq,
              co |-> Vec("closest_on_tri_to_point_v3", <<v0, v1, v2>>),
              no |-> Vec("normal_tri_v3", <<v0, v1, v2>>)]
        ELSE nearest

\* The do-while loop of mesh_faces_spherecast
RECURSIVE mesh_faces_spherecast_loop(_, _, _, _, _, _, _, _)
mesh_faces_spherecast_loop(index, ray, g, hit, t0, t1, t2, t3) ==
    LET dist == IF ray.radius = 0
                THEN bvhtree_ray_tri_intersection(g, hit.dist, t0, t1, t2)
                ELSE bvhtree_sphereray_tri_intersection(g, ray.radius, hit.dist, t0, t1, t2)
        h == IF dist >= 0 /\ dist < hit.dist
             THEN [index |-> index, dist |-> dist,
                   co |-> Vec("madd_v3_v3v3fl", <<dist>>),
                   no |-> Vec("normal_tri_v3", <<t0, t1, t2>>)]
             ELSE hit
    IN  IF t3 # NullPos
        THEN mesh_faces_spherecast_loop(index, ray, g, h, t0, t2, t3, NullPos)
        ELSE h

mesh_faces_spherecast(data, index, ray, g, hit) ==
    LET face == data.face[index]
    IN  mesh_faces_spherecast_loop(index, ray, g, hit,
            data.vert_positions[face[1]],
            data.vert_positions[face[2]],
            data.vert_positions[face[3]],
            IF face[4] # 0 THEN data.vert_positions[face[4]] ELSE NullPos)

mesh_corner_tris_spherecast(data, index, ray, g, hit) ==
    LET tri == data.corner_tris[index]
        v0 == data.vert_positions[data.corner_verts[tri[1]]]
        v1 == data.vert_positions[data.corner_verts[tri[2]]]
        v2 == data.vert_positions[data.corner_verts[tri[3]]]
        dist == IF ray.radius = 0
                THEN bvhtree_ray_tri_intersection(g, hit.dist, v0, v1, v2)
                ELSE bvhtree_sphereray_tri_intersection(g, ray.radius, hit.dist, v0, v1, v2)
    IN  IF dist >= 0 /\ dist < hit.dist
        THEN [index |-> index, dist |-> dist,
              co |-> Vec("madd_v3_v3v3fl", <<dist>>),
              no |-> Vec("normal_tri_v3", <<v0, v1, v2>>)]
        ELSE hit

mesh_edges_nearest_point(data, index, g, nearest) ==
    LET edge == data.edges[index]
        t0 == data.vert_positions[edge[1]]
        t1 == data.vert_positions[edge[2]]
        dist_sq == g.dist_sq
    IN  IF dist_sq < nearest.dist
        THEN [index |-> index, dist |-> dist_sq,
              co |-> Vec("closest_to_line_segment_v3", <<t0, t1>>),
              no |-> Vec("normalize_v3(sub_v3_v3v3)", <<t0, t1>>)]
        ELSE nearest

\* The normal of the running best is not written.
mesh_verts_spherecast_do(index, v, ray, g, hit) ==
    IF g.dot >= 0 /\ g.dist < hit.dist
    THEN [hit EXCEPT !.index = index, !.dist = g.dist, !.co = Vec("i1", <<v>>)]
    ELSE hit

mesh_verts_spherecast(data, index, ray, g, hit) ==
    mesh_verts_spherecast_do(index, data.vert_positions[index], ray, g, hit)

square_f(a) == a * a

mesh_edges_spherecast_noclamp(data, index, ray, g, hit) ==
    LET edge == data.edges[index]
        v1 == data.vert_positions[edge[1]]
        v2 == data.vert_positions[edge[2]]
    IN  IF v1 = v2 THEN mesh_verts_spherecast_do(index, v1, ray, g, hit)
        ELSE IF g.res # 0 /\ g.dot >= 0 /\ g.dist < hit.dist
                  /\ g.len_squared["i1"] <= square_f(ray.radius)
             THEN [hit EXCEPT !.index = index, !.dist = g.dist, !.co = Vec("i2", <<v1, v2>>)]
             ELSE hit

\* The normal of the running best is not written.
mesh_edges_spherecast(data, index, ray, g, hit) ==
    LET radius_sq == square_f(ray.radius)
        edge == data.edges[index]
        v1 == data.vert_positions[edge[1]]
        v2 == data.vert_positions[edge[2]]
    IN  IF v1 = v2 THEN mesh_verts_spherecast_do(index, v1, ray, g, hit)
        ELSE IF g.res # 0 /\ g.dot >= 0 /\ g.dist < hit.dist
             THEN LET i1 == IF g.e_fac < 0 THEN "v1"
                            ELSE IF g.e_fac > 1 THEN "v2" ELSE "i1"
                  IN  IF g.len_squared[i1] <= radius_sq
                      THEN [hit EXCEPT !.index = index, !.dist = g.dist,
                                       !.co = Vec("i2", <<v1, v2>>)]
                      ELSE hit
             ELSE hit

\* The mesh the callbacks are run on: five vertices, the last at its own
\* position or at that of vertex 3; the edges 0-1, 1-2 and 3-4 (zero-length
\* when 3 and 4 coincide); two legacy faces, each with its fourth index
\* zero or not; a quad 0-1-2-3 as the corner triangles (0,1,2) and (0,2,3).
LeafMesh(pos4, v4a, v4b) ==
    [verts_num |-> 5,
     vert_positions |-> [v \in IndexRange(5) |-> IF v = 4 THEN pos4 ELSE v],
     edges |-> [e \in IndexRange(3) |-> IF e = 2 THEN <<3, 4>> ELSE <<e, e + 1>>],
     mface |-> [f \in IndexRange(2) |-> IF f = 0 THEN <<1, 2, 3, v4a>> ELSE <<0, 1, 2, v4b>>],
     mface_null |-> FALSE,
     corner_verts |-> [c \in IndexRange(4) |-> c],
     corner_tris |-> [t \in IndexRange(2) |-> IF t = 0 THEN <<0, 1, 2>> ELSE <<0, 2, 3>>]]

\* The meshes a kind is run on: the edges' endpoints may coincide, the
\* faces' corners are at distinct positions.
LeafMeshes(k) ==
    CASE k = BVHTREE_FROM_EDGES -> {LeafMesh(pos4, 4, 3) : pos4 \in {3, 4}}
      [] k = BVHTREE_FROM_FACES -> {LeafMesh(4, v4a, v4b) : v4a \in {0, 4}, v4b \in {0, 3}}
      [] OTHER -> {LeafMesh(4, 4, 3)}

\* The userdata "built from the same mesh as the tree"
LeafData(m) ==
    [vert_positions |-> m.vert_positions, edges |-> m.edges, face |-> m.mface,
     corner_verts |-> m.corner_verts, corner_tris |-> m.corner_tris]

LeafKinds == {BVHTREE_FROM_VERTS, BVHTREE_FROM_EDGES, BVHTREE_FROM_FACES, BVHTREE_FROM_CORNER_TRIS}

\* The tree the builder of a kind makes of the whole mesh, balanced
LeafTree(k, m) ==
    bvhtree_balance(
        CASE k = BVHTREE_FROM_VERTS ->
                bvhtree_from_mesh_verts_create_tree(m.verts_num, EmptySpan, -1)
          [] k = BVHTREE_FROM_EDGES ->
                bvhtree_from_mesh_edges_create_tree(Size(m.edges), EmptySpan, -1)
          [] k = BVHTREE_FROM_FACES ->
                bvhtree_from_mesh_faces_create_tree(FALSE, m.mface, m.mface_null,
                                                    Size(m.mface), EmptySpan, -1)
          [] k = BVHTREE_FROM_CORNER_TRIS ->
                bvhtree_from_mesh_corner_tris_create_tree(FALSE, Size(m.corner_tris),
                                                          EmptySpan, -1))

\* The positions of the vertices of element index of a kind
LeafPositions(k, m, index) ==
    LET pos == m.vert_positions
    IN  CASE k = BVHTREE_FROM_VERTS -> {pos[index]}
          [] k = BVHTREE_FROM_EDGES -> {pos[m.edges[index][1]], pos[m.edges[index][2]]}
          [] k = BVHTREE_FROM_FACES -> {pos[m.mface[index][c]] : c \in 1 .. 4}
          [] k = BVHTREE_FROM_CORNER_TRIS ->
                {pos[m.corner_verts[m.corner_tris[index][c]]] : c \in 1 .. 3}

LeafTriples(S) == {T \in SUBSET S : Cardinality(T) = 3}

\* isect_ray_tri / isect_sweeping_sphere_tri: a miss, or a hit at a distance
TriIsects == {[hit |-> FALSE, dist |-> 0]} \cup {[hit |-> TRUE, dist |-> d] : d \in Dists}

\* The sign of dot_v3v3v3(r1, i, r2) and len_v3v3(r1, i) of a point i of the
\* ray's line: at the origin exactly when the product is zero
RayPoints == {p \in [dot : {-1, 0, 1}, dist : Dists] : (p.dot = 0) <=> (p.dist = 0)}

\* isect_line_line_v3 on an edge of two distinct points: 0 when the lines
\* are parallel (i1 and i2 are not written), 1 when they cross (i1 = i2),
\* 2 otherwise; no point of the edge's line is nearer to i2 than i1.
LineIsects ==
    {[res |-> 0, dot |-> 0, dist |-> 0, e_fac |-> 0,
      len_squared |-> [p \in {"i1", "v1", "v2"} |-> 0]]}
    \cup {i \in {[res |-> res, dot |-> p.dot, dist |-> p.dist, e_fac |-> e_fac,
                   len_squared |-> l] :
                      res \in {1, 2}, p \in RayPoints, e_fac \in -1 .. 2,
                      l \in [{"i1", "v1", "v2"} -> Dists]} :
            /\ i.len_squared["i1"] <= i.len_squared["v1"]
            /\ i.len_squared["i1"] <= i.len_squared["v2"]
            /\ (i.res = 1 => i.len_squared["i1"] = 0)}

NoGeom == << >>

InitLeaf ==
    /\ cache = [s \in Slots |-> EmptySlot]
    /\ heap = << >>
    /\ callers = [t \in Callers |-> IdleFrame]
    /\ alive = TRUE
    /\ epoch = 0
    /\ builds = [s \in Slots |-> 0]
    /\ kbuilds = [k \in Kinds |-> 0]
    /\ seen = {}
    /\ calls_left = MaxVisits
    /\ \E k \in LeafKinds, nearest \in BOOLEAN, radius \in 0 .. 1 :
          LET data == bvhtree_from_mesh_setup_data(nullptr, k, TRUE, TRUE, TRUE, TRUE)
          IN  /\ mesh \in LeafMeshes(k)
              /\ bin = [kind |-> k,
                        cb |-> IF nearest THEN data.nearest_callback
                               ELSE data.raycast_callback,
                        ray |-> [radius |-> radius],
                        tree |-> LeafTree(k, mesh),
                        index |-> -1,
                        g |-> NoGeom]
    /\ \E dist \in (Dists \ {0}) \cup {FLT_MAX} :
          /\ bout = NoResult(dist)
          /\ before = NoResult(dist)

\* The traversal invokes the callback on a leaf it has not visited yet: g is
\* the geometry of the leaf against the query, result the running best the
\* callback leaves.
LeafVisit(index, g, result) ==
    /\ calls_left > 0
    /\ bin.index = -1
    /\ index \in TraversalLeaves(bin.tree) \ seen
    /\ bin' = [bin EXCEPT !.index = index, !.g = g]
    /\ before' = bout
    /\ bout' = result
    /\ seen' = seen \cup {index}
    /\ calls_left' = calls_left - 1
    /\ UNCHANGED <<mesh, cache, heap, callers, alive, epoch, builds, kbuilds>>

VisitFacesNearest ==
    /\ bin.cb = "mesh_faces_nearest_point"
    /\ \E index \in DOMAIN mesh.mface :
          \E g \in [LeafTriples(LeafPositions(bin.kind, mesh, index)) -> Dists] :
              LeafVisit(index, g, mesh_faces_nearest_point(LeafData(mesh), index, g, bout))

VisitCornerTrisNearest ==
    /\ bin.cb = "mesh_corner_tris_nearest_point"
    /\ \E index \in DOMAIN mesh.corner_tris :
          \E g \in [LeafTriples(LeafPositions(bin.kind, mesh, index)) -> Dists] :
              LeafVisit(index, g, mesh_corner_tris_nearest_point(LeafData(mesh), index, g, bout))

VisitEdgesNearest ==
    /\ bin.cb = "mesh_edges_nearest_point"
    /\ \E index \in DOMAIN mesh.edges :
          \E g \in [dist_sq : Dists] :
              LeafVisit(index, g, mesh_edges_nearest_point(LeafData(mesh), index, g, bout))

VisitFacesSpherecast ==
    /\ bin.cb = "mesh_faces_spherecast"
    /\ \E index \in DOMAIN mesh.mface :
          \E g \in [LeafTriples(LeafPositions(bin.kind, mesh, index)) -> TriIsects] :
              LeafVisit(index, g, mesh_faces_spherecast(LeafData(mesh), index, bin.ray, g, bout))

VisitCornerTrisSpherecast ==
    /\ bin.cb = "mesh_corner_tris_spherecast"
    /\ \E index \in DOMAIN mesh.corner_tris :
          \E g \in [LeafTriples(LeafPositions(bin.kind, mesh, index)) -> TriIsects] :
              LeafVisit(index, g, mesh_corner_tris_spherecast(LeafData(mesh), index, bin.ray, g, bout))

VisitVertsSpherecast ==
    /\ bin.cb = "mesh_verts_spherecast"
    /\ \E index \in IndexRange(mesh.verts_num) :
          \E g \in RayPoints :
              LeafVisit(index, g, mesh_verts_spherecast(LeafData(mesh), index, bin.ray, g, bout))

\* A zero-length edge is cast as a point, any other as a line.
VisitEdgesSpherecast ==
    /\ bin.cb = "mesh_edges_spherecast"
    /\ \E index \in DOMAIN mesh.edges :
          \E g \in IF Cardinality(LeafPositions(bin.kind, mesh, index)) = 1
                   THEN RayPoints ELSE LineIsects :
              LeafVisit(index, g, mesh_edges_spherecast(LeafData(mesh), index, bin.ray, g, bout))

\* The callback has returned and the traversal moves on.
LeafReturn ==
    /\ bin.index # -1
    /\ bin' = [bin EXCEPT !.index = -1, !.g = NoGeom]
    /\ before' = bout
    /\ UNCHANGED <<mesh, cache, heap, callers, alive, epoch, builds, kbuilds, seen, calls_left, bout>>

NextLeaf ==
    \/ LeafReturn
    \/ VisitFacesNearest
    \/ VisitCornerTrisNearest
    \/ VisitEdgesNearest
    \/ VisitFacesSpherecast
    \/ VisitCornerTrisSpherecast
    \/ VisitVertsSpherecast
    \/ VisitEdgesSpherecast

SpecLeaf == InitLeaf /\ [][NextLeaf]_vars

-----------------------------------------------------------------------------
(* Properties *)

InCall(t) == callers[t].pc # "idle" /\ callers[t].op # "pointcloud"

\* The slot caller t's getter works on
SlotOf(t) == GetterSlot(callers[t].kind)

Building(t) == callers[t].pc \in {"create", "balance", "exit"}

Holds(t) == callers[t].pc = "done" /\ callers[t].op # "pointcloud"

\* The number of times the build function of slot s has run since the last
\* invalidation
EpochBuilds(s) == builds[s] - before.slots[s]

\* What the builder of kind k is specified to produce on mesh m, as the set
\* of element indices in the tree ({} for the null tree).
VisibleEdgeTouches(m, v) ==
    \E e \in DOMAIN m.edges : ~m.hide_edge[e] /\ v \in {m.edges[e][1], m.edges[e][2]}

LooseVertsNoHidden(m) ==
    {v \in IndexRange(m.verts_num) : ~VisibleEdgeTouches(m, v) /\ ~m.hide_vert[v]}

\* C1: the tree a cached getter returns for kind K is the tree K's own build
\* function produces on the mesh (the null handle when that is null),
\* whatever other kinds were requested before.
C1_TreeOfOwnKind ==
    \A t \in Callers :
        (Holds(t) /\ callers[t].op = "cached") =>
            LET k == callers[t].kind
                h == callers[t].bundle.tree
            IN  IF h = nullptr THEN GetterBuild(k, mesh).null
                ELSE heap[h].by = k /\ heap[h].leaves = GetterBuild(k, mesh).leaves

\* C2: between two invalidations every kind is served one and the same tree
\* handle, and the build function of its slot runs at most once.
C2_Idempotent ==
    \A k \in Kinds :
        /\ Cardinality(seen[k]) <= 1
        /\ EpochBuilds(GetterSlot(k)) <= 1

\* C2 witness: a getter called when its slot was already built has returned
\* the tree another caller of the same kind holds.
C2_Witness ==
    \E t1 \in Callers, t2 \in Callers :
        /\ t1 # t2 /\ Holds(t1) /\ Holds(t2)
        /\ callers[t1].kind = callers[t2].kind
        /\ callers[t2].hit
        /\ callers[t1].bundle.tree # nullptr
        /\ callers[t1].bundle.tree = callers[t2].bundle.tree

\* C3: under any interleaving the build function of a slot runs at most once
\* per invalidation and by one caller at a time, it has run exactly once
\* when a caller gets past ensure(), and callers of one kind all receive the
\* same tree.
C3_OneBuildPerSlot ==
    /\ \A s \in Slots :
        /\ EpochBuilds(s) <= 1
        /\ Cardinality({t \in Callers : InCall(t) /\ Building(t) /\ SlotOf(t) = s}) <= 1
    /\ \A t \in Callers :
        (InCall(t) /\ callers[t].pc \in {"data", "done"}) => EpochBuilds(SlotOf(t)) = 1
    /\ \A t1 \in Callers, t2 \in Callers :
        (Holds(t1) /\ Holds(t2) /\ callers[t1].kind = callers[t2].kind) =>
            callers[t1].bundle.tree = callers[t2].bundle.tree

\* C3 witness: two callers asked for the same kind while its slot was empty
\* and both have returned.
C3_Witness ==
    \E t1 \in Callers, t2 \in Callers :
        /\ t1 # t2 /\ Holds(t1) /\ Holds(t2)
        /\ callers[t1].kind = callers[t2].kind
        /\ ~callers[t1].hit /\ ~callers[t2].hit
        /\ callers[t1].bundle.tree # nullptr

\* C4: a tree handle returned by a cached getter refers to a tree that holds
\* every element its build function inserts and that has been balanced.
C4_NoPartialTree ==
    \A t \in Callers :
        (Holds(t) /\ callers[t].bundle.tree # nullptr) =>
            LET h == callers[t].bundle.tree
            IN  /\ heap[h].balanced
                /\ heap[h].leaves = GetterBuild(heap[h].by, mesh).leaves

\* C4 witness: two callers entered ensure() on the same empty slot, so one
\* of them waited while the other built, and both have returned the tree.
C4_Witness ==
    \E t1 \in Callers, t2 \in Callers :
        /\ t1 # t2 /\ Holds(t1) /\ Holds(t2)
        /\ SlotOf(t1) = SlotOf(t2)
        /\ ~callers[t1].hit /\ ~callers[t2].hit
        /\ callers[t2].bundle.tree # nullptr
        /\ heap[callers[t2].bundle.tree].balanced

\* C5: the first get of a kind after an invalidation, for a kind served
\* before it, has run that kind's build function again and does not return
\* a tree returned before the invalidation.
C5_RebuildAfterInvalidate ==
    \A t \in Callers :
        (Holds(t) /\ callers[t].op = "cached" /\ epoch > 0
            /\ before.kinds[callers[t].kind].built) =>
            LET k == callers[t].kind
            IN  /\ kbuilds[k] > before.kinds[k].kb
                /\ callers[t].bundle.tree # nullptr =>
                       callers[t].bundle.tree \notin before.kinds[k].trees

\* C6: the tree cached for BVHTREE_FROM_LOOSEVERTS_NO_HIDDEN holds exactly
\* the vertices that no visible edge touches and that are not hidden.
C6_LooseNoHiddenVerts ==
    \A t \in Callers :
        (Holds(t) /\ callers[t].kind = BVHTREE_FROM_LOOSEVERTS_NO_HIDDEN) =>
            LET h == callers[t].bundle.tree
            IN  IF LooseVertsNoHidden(mesh) = {} THEN h = nullptr
                ELSE h # nullptr /\ LeafIndices(heap[h]) = LooseVertsNoHidden(mesh)

\* The active-element count the builder of input i works with
ActiveCount(i) ==
    CASE i.builder \in MaskDriven -> IF i.active # -1 THEN i.active ELSE i.n
      [] i.builder = "tris_init" -> SubsetTrisNum(FacesOfSizes(i.sizes), i.index_mask)
      [] i.builder \in IndexDriven \ {"tris_init"} -> Cardinality(i.index_mask)

\* The number of elements the mask of input i marks active
MaskActive(i) == IF IsEmpty(i.mask) THEN i.n ELSE CountTrue(i.mask)

\* C7: a non-null tree returned by the vertex, edge, tessellated-face or
\* triangulated-face builder holds as many primitives as the mask has true
\* bits, or as there are elements when the mask is empty.
C7_InsertedEqualsActive ==
    (bin.builder \in MaskDriven /\ bout.stage # "in" /\ ~bout.tree.null) =>
        BLI_bvhtree_get_len(bout.tree) = MaskActive(bin)

\* C8: a builder given zero active elements returns the null handle and no
\* tree is constructed, balancing leaves it as it is, and a query on it
\* reports no match.
C8_ZeroActiveIsNull ==
    (bin.builder \in MaskDriven \cup IndexDriven /\ bout.stage # "in"
        /\ ActiveCount(bin) = 0) =>
        /\ bout.tree = NullTree
        /\ bout.stage = "queried" => bout.result = NoMatch

\* C8 witness: a mask of several elements, none of them active, has been
\* built, balanced and queried.
C8_Witness ==
    /\ bin.builder \in MaskDriven
    /\ bin.n > 1 /\ ~IsEmpty(bin.mask) /\ bin.active = 0
    /\ bout.stage = "queried"
    /\ bout.tree.null

\* C9: a slot built with the null tree stays built: its build function has
\* run once and is not running, and a getter returns the null handle.
C9_NullIsBuilt ==
    \A s \in Slots :
        (cache[s].valid /\ cache[s].tree = nullptr) =>
            /\ EpochBuilds(s) = 1
            /\ \A t \in Callers :
                (InCall(t) /\ callers[t].op = "cached" /\ SlotOf(t) = s) =>
                    /\ ~Building(t)
                    /\ callers[t].pc = "done" => callers[t].bundle.tree = nullptr

\* C9 witness: a getter called on a slot already built with the null tree
\* has returned the null handle.
C9_Witness ==
    \E t \in Callers :
        /\ Holds(t) /\ callers[t].op = "cached" /\ callers[t].hit
        /\ cache[SlotOf(t)].valid /\ cache[SlotOf(t)].tree = nullptr
        /\ callers[t].bundle.tree = nullptr
        /\ mesh.verts_num > 0

\* The callers whose bundle refers to tree h
Holders(h) == {t \in Callers : callers[t].pc = "done" /\ callers[t].bundle.tree = h}

\* C10: no tree is freed twice; a tree of a cache slot is freed by the
\* destruction of the mesh's runtime data and by nothing else; a tree built
\* over a proper subset is owned by the one bundle that holds it and is
\* freed once that bundle has ended; a bundle with the null tree owns
\* nothing; bundles of the cached getters own nothing.
C10_Ownership ==
    /\ \A h \in DOMAIN heap : heap[h].freed <= 1
    /\ \A h \in DOMAIN heap \ OwnedHandles :
        /\ \E s \in Slots : cache[s].tree = h
        /\ heap[h].freed = IF alive THEN 0 ELSE 1
    /\ \A h \in OwnedHandles :
        /\ Cardinality(Holders(h)) <= 1
        /\ heap[h].freed = IF Holders(h) = {} THEN 1 ELSE 0
    /\ \A t \in Callers :
        Holds(t) =>
            LET b == callers[t].bundle
            IN  /\ b.owned_tree # nullptr => b.owned_tree = b.tree /\ b.tree \in OwnedHandles
                /\ b.tree \in OwnedHandles => b.owned_tree = b.tree
                /\ b.tree = nullptr => b.owned_tree = nullptr

\* C10 witness: the mesh's runtime data is destroyed and every bundle has
\* ended, after a cached tree was borrowed, a subset tree was owned, and a
\* cache-slot tree and an owned tree were each freed.
C10_Witness ==
    /\ ~alive
    /\ \A t \in Callers : callers[t].pc = "idle"
    /\ \E h \in DOMAIN heap \ OwnedHandles : heap[h].freed = 1
    /\ \E h \in OwnedHandles : heap[h].freed = 1 /\ heap[h].by \in SubsetOps

\* The element indices a subset build over mask is to insert: the triangles
\* of the triangle range of each requested face, or the requested edges or
\* vertices themselves.
SubsetExpected(op, m, mask) ==
    IF op = "tris_init" THEN UNION {face_triangles_range(m, f) : f \in mask}
    ELSE mask

\* The effect required of the call SubsetInit(t, op, mask)
SubsetInitEffect(t, op, mask) ==
    IF Cardinality(mask) = SubsetElems(op, mesh)
    THEN /\ callers'[t].pc = "ensure"
         /\ callers'[t].kind = SubsetKind(op)
         /\ heap' = heap
    ELSE LET b == callers'[t].bundle
             want == SubsetExpected(op, mesh, mask)
         IN  /\ callers'[t].pc = "done"
             /\ cache' = cache /\ builds' = builds
             /\ \A h \in DOMAIN heap : h \in DOMAIN heap' /\ heap'[h] = heap[h]
             /\ IF want = {} THEN b.tree = nullptr /\ heap' = heap
                ELSE /\ b.tree \notin DOMAIN heap
                     /\ b.tree \in DOMAIN heap'
                     /\ LeafIndices(heap'[b.tree]) = want
                     /\ Cardinality(heap'[b.tree].leaves) = Cardinality(want)

\* The bundle a subset call over the full element set returns
SubsetDelegated(t) ==
    (callers[t].pc = "data" /\ callers[t].op \in SubsetOps /\ callers'[t].pc = "done") =>
        LET k == SubsetKind(callers[t].op)
        IN  /\ callers[t].kind = k
            /\ callers'[t].bundle = GetterBundle(k, cache[GetterSlot(k)].tree)
            /\ callers'[t].bundle.owned_tree = nullptr
            /\ heap' = heap

\* C11: a subset call whose mask has as many elements as the mesh goes
\* through the cached getter of its kind and returns that getter's bundle;
\* any other subset call leaves every cache slot and every existing tree as
\* it is and returns a new tree holding exactly the requested elements (for
\* faces, the triangles of their triangle ranges) under their own indices,
\* or the null tree when nothing is requested.
C11_SubsetBuild ==
    [][/\ \A t \in Callers, op \in SubsetOps :
            \A mask \in SUBSET IndexRange(SubsetElems(op, mesh)) :
                SubsetInit(t, op, mask) => SubsetInitEffect(t, op, mask)
       /\ \A t \in Callers : SubsetDelegated(t)]_vars

\* C11 witness: of two faces one is a quad, and a bundle holds the tree of
\* the quad alone, two triangles, while the cache is untouched.
C11_Witness ==
    \E t \in Callers :
        /\ Holds(t) /\ callers[t].op = "tris_init"
        /\ Size(mesh.faces) = 2
        /\ callers[t].bundle.tree \in OwnedHandles
        /\ Cardinality(heap[callers[t].bundle.tree].leaves) = 2
        /\ \A s \in Slots : ~cache[s].valid

\* The build function of kind k has run in the mask specification
MaskDone(k) == bout.stage = "built" /\ bout.kind = k

\* C12: the loose-vertex-excluding-hidden mask has one bit per vertex, bit v
\* is set exactly when no visible edge has v as an endpoint and v is not
\* hidden, and the returned count is the number of set bits.
C12_LooseVertsMask ==
    MaskDone(BVHTREE_FROM_LOOSEVERTS_NO_HIDDEN) =>
        /\ DOMAIN bout.mask = IndexRange(mesh.verts_num)
        /\ \A v \in IndexRange(mesh.verts_num) :
               bout.mask[v] <=> (~VisibleEdgeTouches(mesh, v) /\ ~mesh.hide_vert[v])
        /\ bout.count = CountTrue(bout.mask)

\* C12 witness: the mask of a mesh with a hidden edge, a visible vertex on
\* a visible edge, a hidden vertex on no visible edge and an active vertex.
C12_Witness ==
    /\ MaskDone(BVHTREE_FROM_LOOSEVERTS_NO_HIDDEN)
    /\ \E e \in DOMAIN mesh.edges : mesh.hide_edge[e]
    /\ \E v \in DOMAIN bout.mask : VisibleEdgeTouches(mesh, v) /\ ~mesh.hide_vert[v]
    /\ \E v \in DOMAIN bout.mask : ~VisibleEdgeTouches(mesh, v) /\ mesh.hide_vert[v]
    /\ \E v \in DOMAIN bout.mask : bout.mask[v]

\* Edge e is a corner edge of a face that is not hidden
VisibleFaceUses(m, e) ==
    \E f \in DOMAIN m.faces : ~m.hide_poly[f] /\ \E c \in DOMAIN m.faces[f] : m.faces[f][c] = e

\* C13: the loose-edge-excluding-hidden mask has one bit per edge, bit e is
\* set exactly when no visible face has e on its boundary and e is not
\* hidden, the returned count is the number of set bits, and the tree built
\* for the kind holds exactly the edges whose bit is set (the null tree
\* when there is none).
C13_LooseEdgesMask ==
    MaskDone(BVHTREE_FROM_LOOSEEDGES_NO_HIDDEN) =>
        /\ DOMAIN bout.mask = DOMAIN mesh.edges
        /\ \A e \in DOMAIN mesh.edges :
               bout.mask[e] <=> (~VisibleFaceUses(mesh, e) /\ ~mesh.hide_edge[e])
        /\ bout.count = CountTrue(bout.mask)
        /\ IF CountTrue(bout.mask) = 0 THEN bout.tree.null
           ELSE /\ ~bout.tree.null
                /\ LeafIndices(bout.tree) = {e \in DOMAIN bout.mask : bout.mask[e]}
                /\ BLI_bvhtree_get_len(bout.tree) = bout.count

\* C13 witness: a mesh with an edge of a visible face, an edge of a hidden
\* face only, a hidden edge of no visible face, and a tree of the rest.
C13_Witness ==
    /\ MaskDone(BVHTREE_FROM_LOOSEEDGES_NO_HIDDEN)
    /\ \E e \in DOMAIN mesh.edges : VisibleFaceUses(mesh, e)
    /\ \E e \in DOMAIN mesh.edges :
           /\ ~VisibleFaceUses(mesh, e) /\ bout.mask[e]
           /\ \E f \in DOMAIN mesh.faces : \E c \in DOMAIN mesh.faces[f] : mesh.faces[f][c] = e
    /\ \E e \in DOMAIN mesh.edges : ~VisibleFaceUses(mesh, e) /\ mesh.hide_edge[e]
    /\ ~bout.tree.null

\* The triangles of the faces that are not hidden
VisibleTris(m) ==
    UNION {face_triangles_range(m, f) : f \in {g \in DOMAIN m.faces : ~m.hide_poly[g]}}

\* The tree built from the visible-triangle mask holds the triangles S
TrisTreeHolds(S) ==
    IF S = {} THEN bout.tree.null
    ELSE ~bout.tree.null /\ LeafIndices(bout.tree) = S

\* C14, as the code has it: when the ".hide_poly" lookup is the single
\* value false the result is the empty mask, the count is left as the caller
\* set it (-1), and the tree holds every triangle; otherwise the mask has
\* one bit per triangle, in face order with size - 2 triangles per face, a
\* bit is set exactly when the triangle's face is not hidden, the count is
\* the number of set bits, and the tree holds exactly the visible triangles.
C14_VisibleTrisMask ==
    MaskDone(BVHTREE_FROM_CORNER_TRIS_NO_HIDDEN) =>
        IF ~mesh.has_hide_poly
        THEN /\ IsEmpty(bout.mask) /\ bout.count = -1
             /\ TrisTreeHolds(IndexRange(CornerTrisNum(mesh)))
        ELSE /\ DOMAIN bout.mask = IndexRange(CornerTrisNum(mesh))
             /\ \A t \in DOMAIN bout.mask : bout.mask[t] <=> t \in VisibleTris(mesh)
             /\ bout.count = CountTrue(bout.mask)
             /\ TrisTreeHolds(VisibleTris(mesh))

\* C14 witness: a hidden quad followed by a visible triangle: the third
\* triangle alone is active.
C14_Witness ==
    /\ MaskDone(BVHTREE_FROM_CORNER_TRIS_NO_HIDDEN)
    /\ Size(mesh.faces) = 2 /\ Size(mesh.faces[0]) = 4
    /\ mesh.hide_poly[0] /\ ~mesh.hide_poly[1]
    /\ bout.count = 1 /\ bout.mask[2]
    /\ LeafIndices(bout.tree) = {2}

\* C14 as stated: whenever no face is hidden the result is the empty mask.
C14_EmptyWhenNothingHidden ==
    (MaskDone(BVHTREE_FROM_CORNER_TRIS_NO_HIDDEN)
        /\ \A f \in DOMAIN mesh.faces : ~mesh.hide_poly[f]) =>
        /\ IsEmpty(bout.mask)
        /\ TrisTreeHolds(IndexRange(CornerTrisNum(mesh)))

\* A leaf callback has just run on leaf bin.index with the geometry bin.g:
\* before is the running best it was given, bout the one it left.
Visited(cbs) == bin.index # -1 /\ bin.cb \in cbs

FaceCallbacks == {"mesh_faces_nearest_point", "mesh_faces_spherecast"}

NearestCallbacks ==
    {"mesh_faces_nearest_point", "mesh_corner_tris_nearest_point", "mesh_edges_nearest_point"}

\* The position of corner c (1..4) of the visited legacy face
FacePos(c) == mesh.vert_positions[mesh.mface[bin.index][c]]

\* The distance at which the triangle T = <<a, b, c>> is a candidate for the
\* query: its squared distance to the query point, or the distance at which
\* the ray meets it, FLT_MAX when it does not.
TriCandidate(T) ==
    LET x == bin.g[TriKey(T[1], T[2], T[3])]
    IN  IF bin.cb \in NearestCallbacks THEN x
        ELSE IF x.hit THEN x.dist ELSE FLT_MAX

Min2(a, b) == IF a <= b THEN a ELSE b

\* The face callback left what testing the triangles A and then B leaves:
\* the smallest of the three distances, and when that improves on the
\* running best, the visited index and the normal of a triangle at that
\* distance; the running best untouched otherwise.
TestedAs(A, B) ==
    /\ bout.dist = Min2(before.dist, Min2(TriCandidate(A), TriCandidate(B)))
    /\ IF bout.dist < before.dist
       THEN /\ bout.index = bin.index
            /\ \E W \in {A, B} :
                   TriCandidate(W) = bout.dist /\ bout.no = Vec("normal_tri_v3", W)
       ELSE bout = before

\* C15, as the code has it: a tessellated quad (v1,v2,v3,v4) is tested by
\* the face nearest-point and ray-cast callbacks as the triangles
\* (v1,v2,v3) and (v1,v3,v4), and the normal written is that of the
\* sub-triangle that produced the winning distance.
C15_QuadSplit ==
    (Visited(FaceCallbacks) /\ mesh.mface[bin.index][4] # 0) =>
        TestedAs(<<FacePos(1), FacePos(2), FacePos(3)>>, <<FacePos(1), FacePos(3), FacePos(4)>>)

\* C15 witness: a ray cast on a quad where (v2,v3,v4) is nearer than both
\* tested triangles and the second tested triangle wins.
C15_Witness ==
    /\ Visited({"mesh_faces_spherecast"}) /\ mesh.mface[bin.index][4] # 0
    /\ TriCandidate(<<FacePos(2), FacePos(3), FacePos(4)>>)
           < TriCandidate(<<FacePos(1), FacePos(3), FacePos(4)>>)
    /\ TriCandidate(<<FacePos(1), FacePos(3), FacePos(4)>>)
           < TriCandidate(<<FacePos(1), FacePos(2), FacePos(3)>>)
    /\ TriCandidate(<<FacePos(1), FacePos(2), FacePos(3)>>) < before.dist
    /\ bout.no = Vec("normal_tri_v3", <<FacePos(1), FacePos(3), FacePos(4)>>)

\* C15 as stated: the second triangle tested is (v2,v3,v4).
C15_SplitAtV2V3 ==
    (Visited(FaceCallbacks) /\ mesh.mface[bin.index][4] # 0) =>
        TestedAs(<<FacePos(1), FacePos(2), FacePos(3)>>, <<FacePos(2), FacePos(3), FacePos(4)>>)

\* The callback wrote the visited leaf into the running best
Registered == bout.index = bin.index

\* The visited edge has two distinct endpoints: it is cast as a line
ProperEdge == Cardinality(LeafPositions(bin.kind, mesh, bin.index)) = 2

\* line_point_factor_v3 puts the unclamped approach point beyond an endpoint
BeyondEndpoint == bin.g.e_fac < 0 \/ bin.g.e_fac > 1

\* The endpoint the approach point is clamped to
ClampedTo == IF bin.g.e_fac < 0 THEN "v1" ELSE "v2"

\* C16: in the edge ray-cast callback, when the lines are not parallel and
\* the unclamped closest approach lies beyond an edge endpoint, a candidate
\* in front of the origin and nearer than the running best is registered
\* (index, the ray distance of i2, and i2 as position) exactly when the
\* endpoint it is clamped to is within the ray radius of i2; and no
\* invocation registers a candidate behind the ray origin or not nearer
\* than the running best: it leaves the running best as it was.
C16_EdgeClamp ==
    Visited({"mesh_edges_spherecast"}) =>
        /\ (ProperEdge /\ bin.g.res # 0 /\ BeyondEndpoint
                /\ bin.g.dot >= 0 /\ bin.g.dist < before.dist) =>
               /\ Registered <=> bin.g.len_squared[ClampedTo] <= square_f(bin.ray.radius)
               /\ Registered => bout.dist = bin.g.dist /\ bout.co.f = "i2"
        /\ (bin.g.dot < 0 \/ bin.g.dist >= before.dist) => bout = before
        /\ Registered => bout.dist < before.dist
        /\ ~Registered => bout = before

\* C16 witness: the approach point lies beyond the second endpoint and on
\* the ray itself; the endpoint is off the ray but within its radius, and
\* the hit is registered.
C16_Witness ==
    /\ Visited({"mesh_edges_spherecast"}) /\ ProperEdge
    /\ bin.g.res # 0 /\ bin.g.e_fac > 1
    /\ bin.g.len_squared["i1"] = 0 /\ bin.g.len_squared["v2"] = 1
    /\ bin.ray.radius = 1
    /\ before.index # -1
    /\ Registered

CornerTrisCallbacks == {"mesh_corner_tris_nearest_point", "mesh_corner_tris_spherecast"}

AllCallbacks ==
    NearestCallbacks \cup {"mesh_faces_spherecast", "mesh_corner_tris_spherecast",
                           "mesh_verts_spherecast", "mesh_edges_spherecast"}

\* The position of corner c (1..3) of the visited corner triangle
TriPos(c) == mesh.vert_positions[mesh.corner_verts[mesh.corner_tris[bin.index][c]]]

\* The candidate distances the invocation compared with the running best
Candidates ==
    CASE bin.cb \in FaceCallbacks ->
            {TriCandidate(<<FacePos(1), FacePos(2), FacePos(3)>>)}
            \cup (IF mesh.mface[bin.index][4] # 0
                  THEN {TriCandidate(<<FacePos(1), FacePos(3), FacePos(4)>>)} ELSE {})
      [] bin.cb \in CornerTrisCallbacks -> {TriCandidate(<<TriPos(1), TriPos(2), TriPos(3)>>)}
      [] bin.cb = "mesh_edges_nearest_point" -> {bin.g.dist_sq}
      [] bin.cb = "mesh_verts_spherecast" -> {bin.g.dist}
      [] bin.cb = "mesh_edges_spherecast" ->
            IF ProperEdge /\ bin.g.res = 0 THEN {} ELSE {bin.g.dist}

\* C17: whatever leaf callback runs, the running-best distance does not
\* increase; the running best is overwritten only with the visited index
\* and a candidate distance strictly smaller than the previous best (and
\* not negative, in front of the origin for a ray cast on a vertex or an
\* edge); when no candidate is strictly smaller every field is left as it
\* was, so a candidate at the distance of an earlier leaf does not replace
\* it.
C17_StrictImprovement ==
    Visited(AllCallbacks) =>
        /\ bout.dist <= before.dist
        /\ bout # before =>
               /\ bout.index = bin.index
               /\ bout.dist \in Candidates
               /\ bout.dist < before.dist
               /\ bout.dist >= 0
               /\ bin.cb \in {"mesh_verts_spherecast", "mesh_edges_spherecast"} => bin.g.dot >= 0
        /\ (\A c \in Candidates : c >= before.dist) => bout = before

\* C17 witness: a second triangle at exactly the distance of the first
\* visited one; the first is kept with its position and normal.
C17_Witness ==
    /\ Visited({"mesh_corner_tris_nearest_point"})
    /\ before.index \notin {-1, bin.index}
    /\ Candidates = {before.dist}
    /\ bout = before
    /\ bout.no.f = "normal_tri_v3"

\* The references of its userdata a callback indexes
CallbackReads(cb) ==
    CASE cb \in FaceCallbacks -> {"vert_positions", "face"}
      [] cb \in CornerTrisCallbacks -> {"vert_positions", "corner_verts", "corner_tris"}
      [] cb \in {"mesh_edges_nearest_point", "mesh_edges_spherecast"} -> {"vert_positions", "edges"}
      [] cb = "mesh_verts_spherecast" -> {"vert_positions"}
      [] OTHER -> {}

\* C18: a bundle a cached getter has returned with a non-null tree carries
\* every reference that its nearest-point and ray-cast callbacks index: the
\* positions, and the edge list for the edge kinds, the tessellated face
\* array for the legacy faces, the corner vertices and corner triangles for
\* the triangle kinds.
C18_BundleReferences ==
    \A t \in Callers :
        (Holds(t) /\ callers[t].op = "cached" /\ callers[t].bundle.tree # nullptr) =>
            \A cb \in {callers[t].bundle.nearest_callback, callers[t].bundle.raycast_callback} :
                \A ref \in CallbackReads(cb) : callers[t].bundle[ref]

\* The number of bounding points the builder gave the leaf of element index
LeafPoints(index) == (CHOOSE l \in bin.tree.leaves : l[1] = index)[2]

\* C19: the builder bounds a tessellated face by 4 points exactly when its
\* fourth vertex index is not zero and by 3 points otherwise, and the face
\* callbacks test the two triangles (v1,v2,v3), (v1,v3,v4) on a leaf of 4
\* points and the one triangle (v1,v2,v3) on a leaf of 3 points: a face
\* whose fourth corner is vertex 0 is bounded and queried as (v1,v2,v3).
C19_QuadIffV4 ==
    bin.kind = BVHTREE_FROM_FACES =>
        /\ \A l \in bin.tree.leaves : l[2] = IF mesh.mface[l[1]][4] # 0 THEN 4 ELSE 3
        /\ Visited(FaceCallbacks) =>
               IF LeafPoints(bin.index) = 4
               THEN /\ mesh.mface[bin.index][4] # 0
                    /\ TestedAs(<<FacePos(1), FacePos(2), FacePos(3)>>,
                                <<FacePos(1), FacePos(3), FacePos(4)>>)
               ELSE /\ mesh.mface[bin.index][4] = 0
                    /\ TestedAs(<<FacePos(1), FacePos(2), FacePos(3)>>,
                                <<FacePos(1), FacePos(2), FacePos(3)>>)

\* C19 witness: the face (1,2,3,0) next to a quad: it is a leaf of 3 points,
\* the triangle (v1,v3,v4) through vertex 0 is nearer to the query than
\* (v1,v2,v3), and the distance of (v1,v2,v3) is the one reported.
C19_Witness ==
    /\ Visited({"mesh_faces_nearest_point"})
    /\ mesh.mface[bin.index][4] = 0 /\ FacePos(1) # 0
    /\ \E l \in bin.tree.leaves : l[2] = 4
    /\ LeafPoints(bin.index) = 3
    /\ TriCandidate(<<FacePos(1), FacePos(3), FacePos(4)>>)
           < TriCandidate(<<FacePos(1), FacePos(2), FacePos(3)>>)
    /\ TriCandidate(<<FacePos(1), FacePos(2), FacePos(3)>>) < before.dist
    /\ Registered
    /\ bout.dist = TriCandidate(<<FacePos(1), FacePos(2), FacePos(3)>>)

=============================================================================
